---- MODULE Spec2Model ----
(***************************************************************************)
(* Model of the key-gin signing machine: the per-chain key generators,     *)
(* the transaction signers and the transaction service.                    *)
(*                                                                         *)
(* Byte strings are sequences of 0..255 and Go strings are sequences of    *)
(* ASCII codes, so that lengths, slices, prefixes and hex conversion are   *)
(* computed as the code computes them.  The cryptographic primitives of    *)
(* the libraries (hashes, Ed25519, secp256k1) are symbolic: a hash is an   *)
(* injective-in-practice digest of its input expanded to the primitive's   *)
(* output length; a signature is a term over (key, message) that verifies  *)
(* exactly under the public key of the key that made it.                   *)
(***************************************************************************)
EXTENDS Integers, Sequences, FiniteSets, TLC

(* ---------------------------------------------------------------------- *)
(* Bounds                                                                  *)
(* ---------------------------------------------------------------------- *)
\* number of distinct 32-byte secrets the random source can return
NumKeys == 2

KeyIds == 1..NumKeys

(* ---------------------------------------------------------------------- *)
(* Bytes and strings                                                       *)
(* ---------------------------------------------------------------------- *)
Empty == << >>

Fill(b, n) == [i \in 1..n |-> b]

\* s[a:b] of Go (0-based, half open) on a TLA+ sequence
Slice(s, a, b) == [i \in 1..(b - a) |-> s[a + i]]

\* s[a:] of Go
SliceFrom(s, a) == Slice(s, a, Len(s))

\* strings.HasPrefix
HasPrefix(s, p) == Len(p) <= Len(s) /\ Slice(s, 0, Len(p)) = p

\* strings.Contains
Contains(s, sub) ==
    \E a \in 0..Len(s) : a + Len(sub) <= Len(s) /\ Slice(s, a, a + Len(sub)) = sub

HexDigits == <<48, 49, 50, 51, 52, 53, 54, 55, 56, 57, 97, 98, 99, 100, 101, 102>>  \* "0123456789abcdef"

\* hex.EncodeToString: two lower-case digits per byte
HexEncode(b) ==
    [i \in 1..(2 * Len(b)) |->
        IF i % 2 = 1 THEN HexDigits[(b[(i + 1) \div 2] \div 16) + 1]
                     ELSE HexDigits[(b[i \div 2] % 16) + 1]]

\* value of one hex character, -1 when it is none (upper case is accepted)
FromHexChar(c) ==
    IF c >= 48 /\ c <= 57 THEN c - 48
    ELSE IF c >= 97 /\ c <= 102 THEN c - 87
    ELSE IF c >= 65 /\ c <= 70 THEN c - 55
    ELSE -1

\* hex.DecodeString succeeds: even length and only hex characters
HexValid(s) == Len(s) % 2 = 0 /\ \A i \in 1..Len(s) : FromHexChar(s[i]) >= 0

\* hex.DecodeString (defined when HexValid)
HexDecode(s) ==
    [i \in 1..(Len(s) \div 2) |-> 16 * FromHexChar(s[2 * i - 1]) + FromHexChar(s[2 * i])]

(* ---------------------------------------------------------------------- *)
(* Hash primitives (symbolic)                                              *)
(* ---------------------------------------------------------------------- *)
\* one absorption step; the product stays within 32-bit integers
Mix(h, b) == (h * 251 + b + 1) % 8388593

Mix4(h, s, i) == Mix(Mix(Mix(Mix(h, s[i]), s[i + 1]), s[i + 2]), s[i + 3])

\* absorbs s[i..n] into h, sixteen or four bytes at a time while they last
RECURSIVE Fold(_, _, _, _)
Fold(h, s, i, n) ==
    IF i > n \/ h < 0 THEN h
    ELSE IF i + 15 <= n
    THEN Fold(Mix4(Mix4(Mix4(Mix4(h, s, i), s, i + 4), s, i + 8), s, i + 12), s, i + 16, n)
    ELSE IF i + 3 <= n THEN Fold(Mix4(h, s, i), s, i + 4, n)
    ELSE Fold(Mix(h, s[i]), s, i + 1, n)

\* digest of a byte string under a primitive's tag, below 2^23
Digest(tag, s) == Fold(Mix(tag, Len(s) % 256), s, 1, Len(s))

\* n output bytes that determine d: every 3 consecutive bytes carry d
Expand(d, n) ==
    [i \in 1..n |->
        (( IF (i - 1) % 3 = 0 THEN d % 256
           ELSE IF (i - 1) % 3 = 1 THEN (d \div 256) % 256
           ELSE (d \div 65536) % 256 ) + 7 * i) % 256]

Sha256(s) == Expand(Digest(11, s), 32)

Keccak256(s) == Expand(Digest(13, s), 32)

Sha3_256(s) == Expand(Digest(17, s), 32)

Blake2b(n, s) == Expand(Digest(19 + n, s), n)

Ripemd160(s) == Expand(Digest(23, s), 20)

Hash160(s) == Ripemd160(Sha256(s))

DoubleSha256(s) == Sha256(Sha256(s))

\* the digest carried by an expanded value, -1 when b is no expansion
Unexpand(b) ==
    IF Len(b) < 3 THEN -1
    ELSE LET d == ((b[1] + 256 - 7) % 256)
                  + 256 * ((b[2] + 256 - 14) % 256)
                  + 65536 * ((b[3] + 256 - 21) % 256)
         IN IF d < 8388593 /\ b = Expand(d, Len(b)) THEN d ELSE -1

(* ---------------------------------------------------------------------- *)
(* Base58 (symbolic: an injective encoding over the Base58 alphabet)       *)
(* ---------------------------------------------------------------------- *)
B58Alphabet == <<49, 50, 51, 52, 53, 54, 55, 56, 57, 65, 66, 67, 68, 69, 70, 71>>  \* "123456789ABCDEFG"

Base58Encode(b) ==
    [i \in 1..(2 * Len(b)) |->
        IF i % 2 = 1 THEN B58Alphabet[(b[(i + 1) \div 2] \div 16) + 1]
                     ELSE B58Alphabet[(b[i \div 2] % 16) + 1]]

\* version byte, payload, first four bytes of the double SHA-256
Base58CheckEncode(payload, version) ==
    Base58Encode(<<version>> \o payload \o Slice(DoubleSha256(<<version>> \o payload), 0, 4))

(* ---------------------------------------------------------------------- *)
(* The random source: NumKeys different 32-byte values                     *)
(* ---------------------------------------------------------------------- *)
RandomBytes32(k) == [i \in 1..32 |-> (k * 37 + i) % 256]

(* ---------------------------------------------------------------------- *)
(* crypto/ed25519 (symbolic)                                               *)
(* ---------------------------------------------------------------------- *)
Ed25519PublicOfSeed(seed) == Expand(Digest(29, seed), 32)

\* ed25519.NewKeyFromSeed: the 64-byte private key seed || public key
Ed25519NewKeyFromSeed(seed) == seed \o Ed25519PublicOfSeed(seed)

\* PrivateKey.Public(): copy(make([]byte, 32), priv[32:])
Ed25519Public(priv) == [i \in 1..32 |-> IF 32 + i <= Len(priv) THEN priv[32 + i] ELSE 0]

\* ed25519.Sign on a 64-byte private key: R || S, where the scalar comes
\* from the seed half and the hashed public key is the second half
Ed25519Sign(priv, msg) ==
    LET seed == Slice(priv, 0, 32)
        pub  == Slice(priv, 32, 64)
        R    == Expand(Digest(31, seed \o msg), 32)
    IN R \o Expand(Digest(37, seed \o pub \o R \o msg), 32)

\* ed25519.Verify on a 32-byte public key: false on a wrong signature
\* length, true exactly for the signature of the key pair of pub
Ed25519Verify(pub, msg, sig) ==
    /\ Len(sig) = 64
    /\ \E k \in KeyIds :
          /\ Ed25519PublicOfSeed(RandomBytes32(k)) = pub
          /\ sig = Ed25519Sign(Ed25519NewKeyFromSeed(RandomBytes32(k)), msg)

(* ---------------------------------------------------------------------- *)
(* secp256k1 (symbolic): go-ethereum/crypto and btcec                      *)
(* ---------------------------------------------------------------------- *)
SecpX(d) == IF d = Fill(0, 32) THEN Fill(0, 32) ELSE Expand(Digest(41, d), 32)

SecpYEven(x) == Digest(43, x) % 2 = 0

SecpY(x) == Expand(Digest(43, x), 32)

SecpNegY(x) == Expand(Digest(47, x), 32)

SecpOnCurve(x) == Len(x) = 32 /\ Unexpand(x) >= 0

\* the public point of a 32-byte scalar
SecpPoint(d) == [x |-> SecpX(d), y |-> SecpY(SecpX(d))]

\* crypto.ToECDSA: exactly 32 bytes, not zero, below the group order
ToECDSAValid(d) ==
    /\ Len(d) = 32
    /\ d # Fill(0, 32)
    /\ Slice(d, 0, 16) # Fill(255, 16)

\* crypto.FromECDSAPub / SerializeUncompressed: 0x04 || X || Y
FromECDSAPub(pt) == <<4>> \o pt.x \o pt.y

\* crypto.CompressPubkey / SerializeCompressed: 0x02 or 0x03 by parity, X
CompressPubkey(pt) ==
    <<IF (pt.y = SecpY(pt.x)) = SecpYEven(pt.x) THEN 2 ELSE 3>> \o pt.x

\* crypto.UnmarshalPubkey succeeds
UnmarshalPubkeyValid(b) ==
    /\ Len(b) = 65
    /\ b[1] = 4
    /\ SecpOnCurve(Slice(b, 1, 33))
    /\ Slice(b, 33, 65) \in {SecpY(Slice(b, 1, 33)), SecpNegY(Slice(b, 1, 33))}

UnmarshalPubkey(b) == [x |-> Slice(b, 1, 33), y |-> Slice(b, 33, 65)]

\* crypto.DecompressPubkey succeeds: 33 bytes, prefix 2 or 3, X on the curve
DecompressPubkeyValid(b) ==
    /\ Len(b) = 33
    /\ b[1] \in {2, 3}
    /\ SecpOnCurve(Slice(b, 1, 33))

DecompressPubkey(b) ==
    LET x == Slice(b, 1, 33)
    IN [x |-> x, y |-> IF (b[1] = 2) = SecpYEven(x) THEN SecpY(x) ELSE SecpNegY(x)]

\* crypto.PubkeyToAddress: the last 20 bytes of Keccak-256(X || Y)
PubkeyToAddress(pt) == Slice(Keccak256(pt.x \o pt.y), 12, 32)

\* common.Address.Hex(): "0x" and the 40 hex digits
AddressHex(a) == <<48, 120>> \o HexEncode(a)

\* ModNScalar.SetByteSlice: the first 32 bytes, left-padded with zeros
SetByteSlice(b) ==
    IF Len(b) >= 32 THEN Slice(b, 0, 32) ELSE Fill(0, 32 - Len(b)) \o b

\* btcec.ParsePubKey succeeds (compressed or uncompressed)
ParsePubKeyValid(b) == DecompressPubkeyValid(b) \/ UnmarshalPubkeyValid(b)

ParsePubKey(b) == IF Len(b) = 33 THEN DecompressPubkey(b) ELSE UnmarshalPubkey(b)

(* ---------------------------------------------------------------------- *)
(* Bech32 (5-bit regrouping as coded; the checksum words are symbolic)     *)
(* ---------------------------------------------------------------------- *)
Bech32Charset == <<113, 112, 122, 114, 121, 57, 120, 56, 103, 102, 50, 116, 118, 100, 119, 48, 115, 51, 106, 110, 53, 52, 107, 104, 99, 101, 54, 109, 117, 97, 55, 108>>  \* "qpzry9x8gf2tvdw0s3jn54khce6mua7l"

Pow2(n) == IF n = 0 THEN 1 ELSE IF n = 1 THEN 2 ELSE IF n = 2 THEN 4 ELSE IF n = 3 THEN 8
           ELSE IF n = 4 THEN 16 ELSE IF n = 5 THEN 32 ELSE IF n = 6 THEN 64 ELSE 128

\* bit k (0-based, most significant first) of a byte string, 0 beyond its end
BitAt(data, k) ==
    IF k >= 8 * Len(data) THEN 0 ELSE (data[(k \div 8) + 1] \div Pow2(7 - (k % 8))) % 2

\* bech32.ConvertBits(data, 8, 5, true)
ConvertBits8to5(data) ==
    [j \in 1..((8 * Len(data) + 4) \div 5) |->
        16 * BitAt(data, 5 * (j - 1)) + 8 * BitAt(data, 5 * (j - 1) + 1)
        + 4 * BitAt(data, 5 * (j - 1) + 2) + 2 * BitAt(data, 5 * (j - 1) + 3)
        + BitAt(data, 5 * (j - 1) + 4)]

\* the six checksum words of hrp and data under a checksum constant
Bech32ChecksumWords(hrp, words, variant) ==
    LET cs == Expand(Digest(59 + variant, hrp \o <<0>> \o words), 6)
    IN <<cs[1] % 32, cs[2] % 32, cs[3] % 32, cs[4] % 32, cs[5] % 32, cs[6] % 32>>

\* hrp + "1" + charset(words) + charset(checksum)
Bech32EncodeWith(hrp, words, variant) ==
    LET cs == Bech32ChecksumWords(hrp, words, variant)
    IN hrp \o <<49>>
           \o [i \in 1..Len(words) |-> Bech32Charset[words[i] + 1]]
           \o [i \in 1..6 |-> Bech32Charset[cs[i] + 1]]

\* encodeBech32m followed by validateBech32m on its own result
encodeBech32m(hrp, words) == Bech32EncodeWith(hrp, words, 2)

\* btcutil bech32.Encode (checksum constant 1)
bech32Encode(hrp, words) == Bech32EncodeWith(hrp, words, 1)

(* ---------------------------------------------------------------------- *)
(* Bech32m as ada_key_generator.go computes it (checksum included)         *)
(* ---------------------------------------------------------------------- *)

\* a ^ b on unsigned integers
RECURSIVE Xor(_, _)
Xor(a, b) ==
    IF a = 0 THEN b ELSE IF b = 0 THEN a
    ELSE ((a + b) % 2) + 2 * Xor(a \div 2, b \div 2)

bech32mConst == 734539939  \* 0x2bc830a3

\* 0x3b6a57b2, 0x26508e6d, 0x1ea119fa, 0x3d4233dd, 0x2a1462b3
Bech32Generator == <<996825010, 642813549, 513874426, 1027748829, 705979059>>

\* the inner loop: chk ^= generator[i] for every set bit i of topleft
RECURSIVE PolymodGenerators(_, _, _)
PolymodGenerators(chk, topleft, i) ==
    IF i > 4 THEN chk
    ELSE PolymodGenerators(IF (topleft \div Pow2(i)) % 2 = 1 THEN Xor(chk, Bech32Generator[i + 1]) ELSE chk,
                           topleft, i + 1)

\* one round of the outer loop
PolymodStep(chk, v) ==
    PolymodGenerators(Xor((chk % 33554432) * 32, v), chk \div 33554432, 0)

\* the outer loop over values[lo..hi]: the first half, then the second half
\* from the value c the first half ends with
RECURSIVE PolymodRange(_, _, _, _)
PolymodRange(chk, values, lo, hi) ==
    IF lo > hi THEN chk
    ELSE IF lo = hi THEN PolymodStep(chk, values[lo])
    ELSE CHOOSE r \in {PolymodRange(c, values, ((lo + hi) \div 2) + 1, hi) :
                        c \in {PolymodRange(chk, values, lo, (lo + hi) \div 2)}} : TRUE

bech32Polymod(values) == PolymodRange(1, values, 1, Len(values))

\* byte(c >> 5) of every character, 0, byte(c & 0x1f) of every character
HrpExpand(hrp) ==
    [i \in 1..Len(hrp) |-> hrp[i] \div 32] \o <<0>> \o [i \in 1..Len(hrp) |-> hrp[i] % 32]

bech32mChecksum(hrp, data) ==
    LET poly == Xor(bech32Polymod(HrpExpand(hrp) \o data \o <<0, 0, 0, 0, 0, 0>>), bech32mConst)
    IN [i \in 1..6 |-> (poly \div (32 ^ (6 - i))) % 32]

verifyChecksum(hrp, data, checksum) ==
    bech32Polymod(HrpExpand(hrp) \o data \o checksum) = bech32mConst

\* the index of the first c in s, counted from 0; -1 without one
IndexByte(s, c) ==
    IF \E i \in 1..Len(s) : s[i] = c
    THEN (CHOOSE i \in 1..Len(s) : s[i] = c /\ \A j \in 1..(i - 1) : s[j] # c) - 1
    ELSE -1

\* the position of c in the charset, counted from 0; -1 without one
CharsetIndex(c) == IndexByte(Bech32Charset, c)

Bech32Result(st, hrp, data) == [st |-> st, hrp |-> hrp, data |-> data]

Bech32Error == Bech32Result("err", Empty, Empty)

decodeBech32mWithChecksum(s) ==
    LET sep == IndexByte(s, 49)
    IN IF sep = -1 \/ sep < 1 \/ sep + 7 > Len(s) THEN Bech32Error
       ELSE IF \E i \in (sep + 2)..Len(s) : CharsetIndex(s[i]) = -1 THEN Bech32Error
       ELSE LET data == [i \in 1..(Len(s) - sep - 1) |-> CharsetIndex(s[sep + 1 + i])]
            IN IF Len(data) < 6 THEN Bech32Error
               ELSE IF ~verifyChecksum(Slice(s, 0, sep), Slice(data, 0, Len(data) - 6),
                                       SliceFrom(data, Len(data) - 6))
               THEN Bech32Error
               ELSE Bech32Result("ok", Slice(s, 0, sep), Slice(data, 0, Len(data) - 6))

\* st is "ok" for a nil error
validateBech32m(s) ==
    IF Len(s) < 8 \/ Len(s) > 150 THEN [st |-> "err"]
    ELSE IF (\E i \in 1..Len(s) : s[i] >= 97 /\ s[i] <= 122)
            /\ (\E i \in 1..Len(s) : s[i] >= 65 /\ s[i] <= 90)
    THEN [st |-> "err"]
    ELSE [st |-> decodeBech32mWithChecksum(s).st]

\* hrp + "1" + the characters of data and checksum
Bech32mChars(combined) == [i \in 1..Len(combined) |-> Bech32Charset[combined[i] + 1]]

Bech32mString(hrp, data) == hrp \o <<49>> \o Bech32mChars(data \o bech32mChecksum(hrp, data))

EncodeResult(st, s) == [st |-> st, s |-> s]

\* encodeBech32m with the checks it makes on its arguments and on its result
EncodeBech32m(hrp, data) ==
    IF \E i \in 1..Len(hrp) : hrp[i] < 33 \/ hrp[i] > 126 THEN EncodeResult("err", Empty)
    ELSE IF \E i \in 1..Len(data) : data[i] >= 32 THEN EncodeResult("err", Empty)
    ELSE LET result == Bech32mString(hrp, data)
         IN IF Len(result) < 8 \/ Len(result) > 150 THEN EncodeResult("err", Empty)
            ELSE IF IndexByte(result, 49) < 1 \/ IndexByte(result, 49) > 83 THEN EncodeResult("err", Empty)
            ELSE IF decodeBech32mWithChecksum(result).st # "ok" THEN EncodeResult("err", Empty)
            ELSE EncodeResult("ok", result)


(* ---------------------------------------------------------------------- *)
(* Results of the generator methods                                        *)
(* ---------------------------------------------------------------------- *)
\* st: "ok" (err == nil), "err" (err != nil) or "panic" (run-time panic)
KeyResult(st, address, publicKey, privateKey) ==
    [st |-> st, address |-> address, publicKey |-> publicKey, privateKey |-> privateKey]

KeyError == KeyResult("err", Empty, Empty, Empty)

KeyPanic == KeyResult("panic", Empty, Empty, Empty)

(* ---------------------------------------------------------------------- *)
(* EthKeyGenerator (eth_key_generator.go)                                  *)
(* ---------------------------------------------------------------------- *)
EthKeyGenerator_Derived(d) ==
    KeyResult("ok", AddressHex(PubkeyToAddress(SecpPoint(d))),
              HexEncode(FromECDSAPub(SecpPoint(d))), HexEncode(d))

EthKeyGenerator_GenerateKeyPair(k) == EthKeyGenerator_Derived(RandomBytes32(k))

\* a derivation that returns the compressed form of the public key, which
\* GenerateKeyPair does not: the agreement of C1 tells it from the code
EthKeyGenerator_DeriveCompressedKey(privateKey) ==
    IF ~HexValid(privateKey) THEN KeyError
    ELSE IF ~ToECDSAValid(HexDecode(privateKey)) THEN KeyError
    ELSE [EthKeyGenerator_Derived(HexDecode(privateKey)) EXCEPT
              !.privateKey = Empty,
              !.publicKey = HexEncode(CompressPubkey(SecpPoint(HexDecode(privateKey))))]

EthKeyGenerator_DeriveKeyPairFromPrivateKey(privateKey) ==
    IF ~HexValid(privateKey) THEN KeyError
    ELSE IF ~ToECDSAValid(HexDecode(privateKey)) THEN KeyError
    ELSE [EthKeyGenerator_Derived(HexDecode(privateKey)) EXCEPT !.privateKey = Empty]

EthKeyGenerator_PublicKeyToAddress(publicKey) ==
    IF ~HexValid(publicKey) THEN KeyError
    ELSE LET b == HexDecode(publicKey)
         IN IF Len(b) = 65
            THEN IF UnmarshalPubkeyValid(b)
                 THEN KeyResult("ok", AddressHex(PubkeyToAddress(UnmarshalPubkey(b))), Empty, Empty)
                 ELSE KeyError
            ELSE IF Len(b) = 33
            THEN IF DecompressPubkeyValid(b)
                 THEN KeyResult("ok", AddressHex(PubkeyToAddress(DecompressPubkey(b))), Empty, Empty)
                 ELSE KeyError
            ELSE KeyError

(* ---------------------------------------------------------------------- *)
(* BtcKeyGenerator (btcutil address of the compressed key)                 *)
(* ---------------------------------------------------------------------- *)
\* btcutil.NewAddressPubKey(...).EncodeAddress(): Base58Check of version 0
\* and Hash160 of the serialized key
BtcEncodeAddress(pubBytes) == Base58CheckEncode(Hash160(pubBytes), 0)

BtcKeyGenerator_Derived(d) ==
    LET pub == CompressPubkey(SecpPoint(d))
    IN IF ~ParsePubKeyValid(pub) THEN KeyError
       ELSE KeyResult("ok", BtcEncodeAddress(pub), HexEncode(pub), HexEncode(d))

BtcKeyGenerator_GenerateKeyPair(k) == BtcKeyGenerator_Derived(RandomBytes32(k))

\* btcec.PrivKeyFromBytes takes any number of bytes
BtcKeyGenerator_DeriveKeyPairFromPrivateKey(privateKey) ==
    IF ~HexValid(privateKey) THEN KeyError
    ELSE [BtcKeyGenerator_Derived(SetByteSlice(HexDecode(privateKey))) EXCEPT !.privateKey = Empty]

BtcKeyGenerator_PublicKeyToAddress(publicKey) ==
    IF ~HexValid(publicKey) THEN KeyError
    ELSE IF ~ParsePubKeyValid(HexDecode(publicKey)) THEN KeyError
    ELSE KeyResult("ok", BtcEncodeAddress(CompressPubkey(ParsePubKey(HexDecode(publicKey)))),
                   Empty, Empty)

(* ---------------------------------------------------------------------- *)
(* TronKeyGenerator (tron_key_generator.go)                                *)
(* ---------------------------------------------------------------------- *)
TronFixedAddress == <<84, 84, 109, 118, 84, 81, 53, 80, 51, 51, 107, 113, 51, 57, 103, 88, 115, 83, 121, 66, 122, 81, 110, 80, 57, 97, 74, 100, 55, 57, 99, 90, 56, 66>>  \* "TTmvTQ5P33kq39gXsSyBzQnP9aJd79cZ8B"

\* the Keccak-256 of the key is computed and dropped; the address is fixed
TronKeyGenerator_PublicKeyToAddress(publicKeyHex) ==
    IF ~HexValid(publicKeyHex) THEN KeyError
    ELSE LET b == HexDecode(publicKeyHex)
         IN IF Len(b) = 33
            THEN IF DecompressPubkeyValid(b) THEN KeyResult("ok", TronFixedAddress, Empty, Empty)
                 ELSE KeyError
            ELSE IF Len(b) = 65
            THEN IF UnmarshalPubkeyValid(b) THEN KeyResult("ok", TronFixedAddress, Empty, Empty)
                 ELSE KeyError
            ELSE KeyError

TronKeyGenerator_Derived(d) ==
    LET publicKey == HexEncode(CompressPubkey(SecpPoint(d)))
        a == TronKeyGenerator_PublicKeyToAddress(publicKey)
    IN IF a.st # "ok" THEN KeyResult("err", Empty, publicKey, HexEncode(d))
       ELSE KeyResult("ok", a.address, publicKey, HexEncode(d))

TronKeyGenerator_GenerateKeyPair(k) == TronKeyGenerator_Derived(RandomBytes32(k))

TronKeyGenerator_DeriveKeyPairFromPrivateKey(privateKeyHex) ==
    IF ~HexValid(privateKeyHex) THEN KeyError
    ELSE IF ~ToECDSAValid(HexDecode(privateKeyHex)) THEN KeyError
    ELSE [TronKeyGenerator_Derived(HexDecode(privateKeyHex)) EXCEPT !.privateKey = Empty]

(* ---------------------------------------------------------------------- *)
(* Ed25519 key generation as the generators call it                        *)
(* ---------------------------------------------------------------------- *)
\* ed25519.GenerateKey: the 64-byte private key of the k-th random seed.
\* A nil reader falls back to crypto/rand.Reader, so k is a free choice.
Ed25519GenerateKey(k) == Ed25519NewKeyFromSeed(RandomBytes32(k))

\* the seed/nil-reader branch shared by the SUI and Aptos code: a freshly
\* generated key (random choice r) whose first 32 bytes are overwritten
SeedOverRandomKey(seed, r) == seed \o Slice(Ed25519GenerateKey(r), 32, 64)

(* ---------------------------------------------------------------------- *)
(* SolanaKeyGenerator                                                      *)
(* ---------------------------------------------------------------------- *)
SolanaKeyGenerator_GenerateKeyPair(k) ==
    LET privateKeyBytes == Ed25519GenerateKey(k)
        publicKeyBytes  == Slice(privateKeyBytes, 32, 64)
    IN KeyResult("ok", Base58Encode(publicKeyBytes), HexEncode(publicKeyBytes),
                 HexEncode(privateKeyBytes))

SolanaKeyGenerator_DeriveKeyPairFromPrivateKey(privateKey) ==
    IF ~HexValid(privateKey) THEN KeyError
    ELSE IF Len(HexDecode(privateKey)) # 64 THEN KeyError
    ELSE LET publicKeyBytes == SliceFrom(HexDecode(privateKey), 32)
         IN KeyResult("ok", Base58Encode(publicKeyBytes), HexEncode(publicKeyBytes), Empty)

SolanaKeyGenerator_PublicKeyToAddress(publicKey) ==
    IF ~HexValid(publicKey) THEN KeyError
    ELSE IF Len(HexDecode(publicKey)) # 32 THEN KeyError
    ELSE KeyResult("ok", Base58Encode(HexDecode(publicKey)), Empty, Empty)

(* ---------------------------------------------------------------------- *)
(* SuiKeyGenerator                                                         *)
(* ---------------------------------------------------------------------- *)
SuiKeyGenerator_PublicKeyToAddress(publicKey) ==
    IF ~HexValid(publicKey) THEN KeyError
    ELSE IF Len(HexDecode(publicKey)) # 32 THEN KeyError
    ELSE KeyResult("ok", <<48, 120>> \o Base58Encode(HexDecode(publicKey)), Empty, Empty)

SuiKeyGenerator_GenerateKeyPair(k) ==
    LET privateKeyBytes == Ed25519GenerateKey(k)
        publicKey == HexEncode(Slice(privateKeyBytes, 32, 64))
        a == SuiKeyGenerator_PublicKeyToAddress(publicKey)
    IN IF a.st # "ok" THEN KeyError
       ELSE KeyResult("ok", a.address, publicKey, HexEncode(privateKeyBytes))

SuiKeyGenerator_DeriveKeyPairFromPrivateKey(privateKey, r) ==
    IF ~HexValid(privateKey) THEN KeyError
    ELSE IF Len(HexDecode(privateKey)) \notin {32, 64} THEN KeyError
    ELSE LET privateKeyBytes == IF Len(HexDecode(privateKey)) = 32
                                THEN SeedOverRandomKey(HexDecode(privateKey), r)
                                ELSE HexDecode(privateKey)
             publicKey == HexEncode(Ed25519Public(privateKeyBytes))
             a == SuiKeyGenerator_PublicKeyToAddress(publicKey)
         IN IF a.st # "ok" THEN KeyError
            ELSE KeyResult("ok", a.address, publicKey, Empty)

(* ---------------------------------------------------------------------- *)
(* AptosKeyGenerator                                                       *)
(* ---------------------------------------------------------------------- *)
AptosKeyGenerator_PublicKeyToAddress(publicKey) ==
    IF ~HexValid(publicKey) THEN KeyError
    ELSE IF Len(HexDecode(publicKey)) # 32 THEN KeyError
    ELSE KeyResult("ok", <<48, 120>> \o HexEncode(Sha3_256(HexDecode(publicKey))), Empty, Empty)

AptosKeyGenerator_GenerateKeyPair(k) ==
    LET privateKeyBytes == Ed25519GenerateKey(k)
        publicKey == HexEncode(Slice(privateKeyBytes, 32, 64))
        a == AptosKeyGenerator_PublicKeyToAddress(publicKey)
    IN IF a.st # "ok" THEN KeyError
       ELSE KeyResult("ok", a.address, publicKey, HexEncode(privateKeyBytes))

AptosKeyGenerator_DeriveKeyPairFromPrivateKey(privateKey, r) ==
    IF ~HexValid(privateKey) THEN KeyError
    ELSE IF Len(HexDecode(privateKey)) \notin {32, 64} THEN KeyError
    ELSE LET privateKeyBytes == IF Len(HexDecode(privateKey)) = 32
                                THEN SeedOverRandomKey(HexDecode(privateKey), r)
                                ELSE HexDecode(privateKey)
             publicKey == HexEncode(Ed25519Public(privateKeyBytes))
             a == AptosKeyGenerator_PublicKeyToAddress(publicKey)
         IN IF a.st # "ok" THEN KeyError
            ELSE KeyResult("ok", a.address, publicKey, Empty)

(* ---------------------------------------------------------------------- *)
(* TonKeyGenerator                                                         *)
(* ---------------------------------------------------------------------- *)
TonKeyGenerator_PublicKeyToAddress(publicKey) ==
    IF ~HexValid(publicKey) THEN KeyError
    ELSE IF Len(HexDecode(publicKey)) # 32 THEN KeyError
    ELSE KeyResult("ok", <<69, 81>> \o HexEncode(Slice(Keccak256(HexDecode(publicKey)), 0, 20)),
                   Empty, Empty)

TonKeyGenerator_GenerateKeyPair(k) ==
    LET privateKeyBytes == Ed25519GenerateKey(k)
        publicKey == HexEncode(Slice(privateKeyBytes, 32, 64))
        a == TonKeyGenerator_PublicKeyToAddress(publicKey)
    IN IF a.st # "ok" THEN KeyResult("err", Empty, publicKey, HexEncode(privateKeyBytes))
       ELSE KeyResult("ok", a.address, publicKey, HexEncode(privateKeyBytes))

\* both accepted lengths take Public() of the bytes as given
TonKeyGenerator_DeriveKeyPairFromPrivateKey(privateKey) ==
    IF ~HexValid(privateKey) THEN KeyError
    ELSE IF Len(HexDecode(privateKey)) \notin {32, 64} THEN KeyError
    ELSE LET publicKey == HexEncode(Ed25519Public(HexDecode(privateKey)))
             a == TonKeyGenerator_PublicKeyToAddress(publicKey)
         IN IF a.st # "ok" THEN KeyResult("err", Empty, publicKey, Empty)
            ELSE KeyResult("ok", a.address, publicKey, Empty)

(* ---------------------------------------------------------------------- *)
(* PolkadotKeyGenerator                                                    *)
(* ---------------------------------------------------------------------- *)
\* rand.Read into 64 bytes
RandomBytes64(k) == [i \in 1..64 |-> (k * 37 + 3 * i) % 256]

PolkadotAddressOf(publicKeyBytes) ==
    <<49>> \o HexEncode(Slice(Blake2b(32, publicKeyBytes), 0, 20))

PolkadotKeyGenerator_GenerateKeyPair(k) ==
    LET publicKeyBytes == Blake2b(32, RandomBytes64(k))
    IN KeyResult("ok", PolkadotAddressOf(publicKeyBytes), HexEncode(publicKeyBytes),
                 HexEncode(RandomBytes64(k)))

PolkadotKeyGenerator_DeriveKeyPairFromPrivateKey(privateKey) ==
    IF ~HexValid(privateKey) THEN KeyError
    ELSE IF Len(HexDecode(privateKey)) < 32 THEN KeyError
    ELSE LET publicKeyBytes == Blake2b(32, HexDecode(privateKey))
         IN KeyResult("ok", PolkadotAddressOf(publicKeyBytes), HexEncode(publicKeyBytes), Empty)

PolkadotKeyGenerator_PublicKeyToAddress(publicKey) ==
    IF ~HexValid(publicKey) THEN KeyError
    ELSE KeyResult("ok", PolkadotAddressOf(HexDecode(publicKey)), Empty, Empty)

(* ---------------------------------------------------------------------- *)
(* AdaKeyGenerator (ada_key_generator.go, HD variant with bech32m)         *)
(* ---------------------------------------------------------------------- *)
MainnetNetworkID == 0

TestnetNetworkID == 1

BaseAddressType == 0

EnterpriseAddressType == 1

\* exported address builder: key length, hrp of the network id, header
\* (networkID << 4) | addressType, Blake2b-224 credentials, bech32m
GenerateCardanoAddress(publicKey, networkID, addressType) ==
    IF Len(publicKey) # 32 THEN KeyError
    ELSE IF networkID \notin {0, 1} THEN KeyError
    ELSE IF addressType \notin {0, 1} THEN KeyError
    ELSE LET hrp == IF networkID = 0 THEN <<97, 100, 100, 114>>                         \* "addr"
                    ELSE <<97, 100, 100, 114, 95, 116, 101, 115, 116>>                 \* "addr_test"
             paymentHash == Blake2b(28, publicKey)
             addressHeader == (networkID * 16 + addressType) % 256
             data == IF addressType = 0
                     THEN <<addressHeader, 0>> \o paymentHash \o <<0>> \o paymentHash
                     ELSE <<addressHeader, 0>> \o paymentHash
         IN KeyResult("ok", encodeBech32m(hrp, ConvertBits8to5(data)), Empty, Empty)

generateCardanoAddress(publicKeyBytes, addressType, networkType) ==
    IF networkType \notin {"mainnet", "testnet"} THEN KeyError
    ELSE IF addressType \notin {"base", "enterprise"} THEN KeyError
    ELSE GenerateCardanoAddress(publicKeyBytes,
             IF networkType = "mainnet" THEN MainnetNetworkID ELSE TestnetNetworkID,
             IF addressType = "base" THEN BaseAddressType ELSE EnterpriseAddressType)

\* the key taken from the BIP32 path m/1852'/1815'/0'/0/0 of a random seed
HDAddressKey(seed) == Expand(Digest(53, seed), 32)

\* "publicKeyBytes" is the 64-byte result of ed25519.NewKeyFromSeed
AdaKeyGenerator_GenerateHDKeyPairWithOptions(k, addressType, networkType) ==
    LET privateKeyBytes == HDAddressKey(RandomBytes32(k))
        publicKeyBytes  == Ed25519NewKeyFromSeed(privateKeyBytes)
        a == generateCardanoAddress(publicKeyBytes, addressType, networkType)
    IN IF a.st # "ok" THEN KeyError
       ELSE KeyResult("ok", a.address, HexEncode(publicKeyBytes), HexEncode(privateKeyBytes))

AdaKeyGenerator_DeriveKeyPairFromPrivateKeyWithOptions(privateKey, addressType, networkType) ==
    IF ~HexValid(privateKey) THEN KeyError
    ELSE IF Len(HexDecode(privateKey)) \notin {32, 64} THEN KeyError
    ELSE LET publicKeyBytes == IF Len(HexDecode(privateKey)) = 32
                               THEN Ed25519NewKeyFromSeed(HexDecode(privateKey))
                               ELSE Ed25519Public(HexDecode(privateKey))
             a == generateCardanoAddress(publicKeyBytes, addressType, networkType)
         IN IF a.st # "ok" THEN KeyError
            ELSE KeyResult("ok", a.address, HexEncode(publicKeyBytes), Empty)

AdaKeyGenerator_PublicKeyToAddressWithOptions(publicKey, addressType, networkType) ==
    IF ~HexValid(publicKey) THEN KeyError
    ELSE IF Len(HexDecode(publicKey)) # 32 THEN KeyError
    ELSE generateCardanoAddress(HexDecode(publicKey), addressType, networkType)

AdaKeyGenerator_GenerateKeyPair(k) ==
    AdaKeyGenerator_GenerateHDKeyPairWithOptions(k, "base", "mainnet")

AdaKeyGenerator_DeriveKeyPairFromPrivateKey(privateKey) ==
    AdaKeyGenerator_DeriveKeyPairFromPrivateKeyWithOptions(privateKey, "base", "mainnet")

AdaKeyGenerator_PublicKeyToAddress(publicKey) ==
    AdaKeyGenerator_PublicKeyToAddressWithOptions(publicKey, "base", "mainnet")

(* ---------------------------------------------------------------------- *)
(* AdaKeyGenerator (variant built on ed25519.GenerateKey and bech32)       *)
(* ---------------------------------------------------------------------- *)
\* header (addrTypeID << 4) | networkID with mainnet = 1, enterprise = 6;
\* the key length is not examined here
Ed25519Ada_generateCardanoAddress(publicKeyBytes, addressType, networkType) ==
    IF networkType \notin {"mainnet", "testnet"} THEN KeyError
    ELSE IF addressType \notin {"base", "enterprise"} THEN KeyError
    ELSE LET networkID  == IF networkType = "mainnet" THEN 1 ELSE 0
             addrTypeID == IF addressType = "base" THEN 0 ELSE 6
             paymentCred == Blake2b(28, publicKeyBytes)
             hrp == IF networkID = 1 THEN <<97, 100, 100, 114>>
                    ELSE <<97, 100, 100, 114, 95, 116, 101, 115, 116>>
             addressHeader == (addrTypeID * 16 + networkID) % 256
             data == IF addrTypeID = 0
                     THEN <<addressHeader, 0>> \o paymentCred \o <<0>> \o paymentCred
                     ELSE <<addressHeader, 0>> \o paymentCred
         IN KeyResult("ok", bech32Encode(hrp, ConvertBits8to5(data)), Empty, Empty)

Ed25519Ada_GenerateKeyPairWithOptions(k, addressType, networkType) ==
    LET privateKeyBytes == Ed25519GenerateKey(k)
        publicKeyBytes  == Slice(privateKeyBytes, 32, 64)
        a == Ed25519Ada_generateCardanoAddress(publicKeyBytes, addressType, networkType)
    IN IF a.st # "ok" THEN KeyError
       ELSE KeyResult("ok", a.address, HexEncode(publicKeyBytes), HexEncode(privateKeyBytes))

Ed25519Ada_DeriveKeyPairFromPrivateKeyWithOptions(privateKey, addressType, networkType) ==
    IF ~HexValid(privateKey) THEN KeyError
    ELSE IF Len(HexDecode(privateKey)) \notin {32, 64} THEN KeyError
    ELSE LET publicKeyBytes == IF Len(HexDecode(privateKey)) = 32
                               THEN Ed25519NewKeyFromSeed(HexDecode(privateKey))
                               ELSE Ed25519Public(HexDecode(privateKey))
             a == Ed25519Ada_generateCardanoAddress(publicKeyBytes, addressType, networkType)
         IN IF a.st # "ok" THEN KeyError
            ELSE KeyResult("ok", a.address, HexEncode(publicKeyBytes), Empty)

Ed25519Ada_PublicKeyToAddressWithOptions(publicKey, addressType, networkType) ==
    IF ~HexValid(publicKey) THEN KeyError
    ELSE IF Len(HexDecode(publicKey)) # 32 THEN KeyError
    ELSE Ed25519Ada_generateCardanoAddress(HexDecode(publicKey), addressType, networkType)

Ed25519Ada_GenerateKeyPair(k) == Ed25519Ada_GenerateKeyPairWithOptions(k, "base", "mainnet")

Ed25519Ada_DeriveKeyPairFromPrivateKey(privateKey) ==
    Ed25519Ada_DeriveKeyPairFromPrivateKeyWithOptions(privateKey, "base", "mainnet")

Ed25519Ada_PublicKeyToAddress(publicKey) ==
    Ed25519Ada_PublicKeyToAddressWithOptions(publicKey, "base", "mainnet")

(* ---------------------------------------------------------------------- *)
(* The generators of key_generator.go (secp256k1 keys for every chain)     *)
(* ---------------------------------------------------------------------- *)
GenericEthKeyGenerator_GenerateKeyPair(k) ==
    KeyResult("ok", AddressHex(PubkeyToAddress(SecpPoint(RandomBytes32(k)))),
              HexEncode(FromECDSAPub(SecpPoint(RandomBytes32(k)))), HexEncode(RandomBytes32(k)))

GenericEthKeyGenerator_DeriveKeyPairFromPrivateKey(privateKey) ==
    IF ~HexValid(privateKey) THEN KeyError
    ELSE IF ~ToECDSAValid(HexDecode(privateKey)) THEN KeyError
    ELSE KeyResult("ok", AddressHex(PubkeyToAddress(SecpPoint(HexDecode(privateKey)))),
                   HexEncode(FromECDSAPub(SecpPoint(HexDecode(privateKey)))), Empty)

\* only crypto.DecompressPubkey is tried
GenericEthKeyGenerator_PublicKeyToAddress(publicKey) ==
    IF ~HexValid(publicKey) THEN KeyError
    ELSE IF ~DecompressPubkeyValid(HexDecode(publicKey)) THEN KeyError
    ELSE KeyResult("ok", AddressHex(PubkeyToAddress(DecompressPubkey(HexDecode(publicKey)))),
                   Empty, Empty)

GenericBtcKeyGenerator_GenerateKeyPair(k) ==
    LET publicKey == HexEncode(CompressPubkey(SecpPoint(RandomBytes32(k))))
    IN KeyResult("ok", publicKey, publicKey, HexEncode(RandomBytes32(k)))

GenericBtcKeyGenerator_DeriveKeyPairFromPrivateKey(privateKey) ==
    IF ~HexValid(privateKey) THEN KeyError
    ELSE LET publicKey == HexEncode(CompressPubkey(SecpPoint(SetByteSlice(HexDecode(privateKey)))))
         IN KeyResult("ok", publicKey, publicKey, Empty)

GenericBtcKeyGenerator_PublicKeyToAddress(publicKey) == KeyResult("ok", publicKey, Empty, Empty)

\* "T" + addressBytes.Hex()[1:]
TronHexAddress(pt) == <<84>> \o SliceFrom(AddressHex(PubkeyToAddress(pt)), 1)

GenericTronKeyGenerator_GenerateKeyPair(k) ==
    KeyResult("ok", TronHexAddress(SecpPoint(RandomBytes32(k))),
              HexEncode(FromECDSAPub(SecpPoint(RandomBytes32(k)))), HexEncode(RandomBytes32(k)))

GenericTronKeyGenerator_DeriveKeyPairFromPrivateKey(privateKey) ==
    IF ~HexValid(privateKey) THEN KeyError
    ELSE IF ~ToECDSAValid(HexDecode(privateKey)) THEN KeyError
    ELSE KeyResult("ok", TronHexAddress(SecpPoint(HexDecode(privateKey))),
                   HexEncode(FromECDSAPub(SecpPoint(HexDecode(privateKey)))), Empty)

GenericTronKeyGenerator_PublicKeyToAddress(publicKey) ==
    IF ~HexValid(publicKey) THEN KeyError
    ELSE IF ~DecompressPubkeyValid(HexDecode(publicKey)) THEN KeyError
    ELSE KeyResult("ok", TronHexAddress(DecompressPubkey(HexDecode(publicKey))), Empty, Empty)

\* prefix + hex(publicKeyBytes[:n]) of the uncompressed key; the slice
\* expression panics when fewer than n bytes are present
PrefixedAddress(prefix, n, publicKeyBytes) ==
    IF Len(publicKeyBytes) < n THEN KeyPanic
    ELSE KeyResult("ok", prefix \o HexEncode(Slice(publicKeyBytes, 0, n)), Empty, Empty)

PrefixedGenerateKeyPair(prefix, n, k) ==
    LET publicKeyBytes == FromECDSAPub(SecpPoint(RandomBytes32(k)))
    IN KeyResult("ok", PrefixedAddress(prefix, n, publicKeyBytes).address,
                 HexEncode(publicKeyBytes), HexEncode(RandomBytes32(k)))

PrefixedDeriveKeyPairFromPrivateKey(prefix, n, privateKey) ==
    IF ~HexValid(privateKey) THEN KeyError
    ELSE IF ~ToECDSAValid(HexDecode(privateKey)) THEN KeyError
    ELSE LET publicKeyBytes == FromECDSAPub(SecpPoint(HexDecode(privateKey)))
         IN KeyResult("ok", PrefixedAddress(prefix, n, publicKeyBytes).address,
                      HexEncode(publicKeyBytes), Empty)

PrefixedPublicKeyToAddress(prefix, n, publicKey) ==
    IF ~HexValid(publicKey) THEN KeyError
    ELSE PrefixedAddress(prefix, n, HexDecode(publicKey))

GenericSolanaPrefix == <<83, 79, 76>>  \* "SOL"

GenericSuiPrefix == <<48, 120>>  \* "0x"

GenericAdaPrefix == <<97, 100, 100, 114, 49>>  \* "addr1"

GenericPolkadotPrefix == <<49>>  \* "1"

GenericTonPrefix == <<69, 81>>  \* "EQ"

(* ---------------------------------------------------------------------- *)
(* encoding/json: acceptance of a flat object with unsigned integer values *)
(* ---------------------------------------------------------------------- *)
IsDigit(c) == c >= 48 /\ c <= 57

\* scanner position after reading c in position q (9 = rejected):
\* 0 start, 1 after "{", 2 in a key, 3 after a key, 4 after ":",
\* 5 in a number, 6 after ",", 7 after "}", 8 after a leading zero
JsonStep(q, c) ==
    IF q = 0 THEN (IF c = 123 THEN 1 ELSE 9)
    ELSE IF q = 1 THEN (IF c = 34 THEN 2 ELSE IF c = 125 THEN 7 ELSE 9)
    ELSE IF q = 2 THEN (IF c = 34 THEN 3 ELSE IF c = 92 \/ c < 32 THEN 9 ELSE 2)
    ELSE IF q = 3 THEN (IF c = 58 THEN 4 ELSE 9)
    ELSE IF q = 4 THEN (IF c = 48 THEN 8 ELSE IF IsDigit(c) THEN 5 ELSE 9)
    ELSE IF q = 5 THEN (IF IsDigit(c) THEN 5 ELSE IF c = 44 THEN 6 ELSE IF c = 125 THEN 7 ELSE 9)
    ELSE IF q = 8 THEN (IF c = 44 THEN 6 ELSE IF c = 125 THEN 7 ELSE 9)
    ELSE IF q = 6 THEN (IF c = 34 THEN 2 ELSE 9)
    ELSE 9

RECURSIVE JsonScan(_, _, _)
JsonScan(q, s, i) == IF i > Len(s) THEN q ELSE JsonScan(JsonStep(q, s[i]), s, i + 1)

\* json.Unmarshal([]byte(rawTx), &txReq) returns nil
JsonUnmarshalOk(rawTx) == JsonScan(0, rawTx, 1) = 7

(* ---------------------------------------------------------------------- *)
(* Ed25519 transaction signers                                             *)
(* ---------------------------------------------------------------------- *)
TxResult(st, signedTx, txHash) == [st |-> st, signedTx |-> signedTx, txHash |-> txHash]

TxError == TxResult("err", Empty, Empty)

\* (bool, error): valid is FALSE whenever st = "err"
VerifyResult(st, valid) == [st |-> st, valid |-> valid]

VerifyError == VerifyResult("err", FALSE)

SolanaTransactionSigner_SignTransaction(rawTx, privateKeyHex) ==
    IF ~HexValid(privateKeyHex) THEN TxError
    ELSE IF Len(HexDecode(privateKeyHex)) # 64 THEN TxError
    ELSE IF ~JsonUnmarshalOk(rawTx) THEN TxError
    ELSE TxResult("ok", HexEncode(Ed25519Sign(HexDecode(privateKeyHex), Sha256(rawTx))),
                  HexEncode(Sha256(rawTx)))

\* the decoded signature's length is left to ed25519.Verify
SolanaTransactionSigner_VerifyTransaction(rawTx, signatureHex, publicKeyHex) ==
    IF ~HexValid(publicKeyHex) THEN VerifyError
    ELSE IF Len(HexDecode(publicKeyHex)) # 32 THEN VerifyError
    ELSE IF ~HexValid(signatureHex) THEN VerifyError
    ELSE VerifyResult("ok", Ed25519Verify(HexDecode(publicKeyHex), Sha256(rawTx),
                                          HexDecode(signatureHex)))

SuiTransactionSigner_SignTransaction(rawTx, privateKeyHex, r) ==
    IF ~HexValid(privateKeyHex) THEN TxError
    ELSE IF Len(HexDecode(privateKeyHex)) \notin {32, 64} THEN TxError
    ELSE IF ~JsonUnmarshalOk(rawTx) THEN TxError
    ELSE LET privateKeyBytes == IF Len(HexDecode(privateKeyHex)) = 32
                                THEN SeedOverRandomKey(HexDecode(privateKeyHex), r)
                                ELSE HexDecode(privateKeyHex)
         IN TxResult("ok", HexEncode(Ed25519Sign(privateKeyBytes, Sha256(rawTx))),
                     HexEncode(Sha256(rawTx)))

SuiTransactionSigner_VerifyTransaction(rawTx, signatureHex, publicKeyHex) ==
    IF ~HexValid(publicKeyHex) THEN VerifyError
    ELSE IF Len(HexDecode(publicKeyHex)) # 32 THEN VerifyError
    ELSE IF ~HexValid(signatureHex) THEN VerifyError
    ELSE IF Len(HexDecode(signatureHex)) # 64 THEN VerifyError
    ELSE VerifyResult("ok", Ed25519Verify(HexDecode(publicKeyHex), Sha256(rawTx),
                                          HexDecode(signatureHex)))

TonSignedPrefix == <<116, 111, 110, 95, 115, 105, 103, 110, 101, 100, 95>>  \* "ton_signed_"

TonHashPrefix == <<116, 111, 110, 95>>  \* "ton_"

TonTransactionSigner_SignTransaction(rawTx, privateKeyHex, r) ==
    IF ~HexValid(privateKeyHex) THEN TxError
    ELSE IF Len(HexDecode(privateKeyHex)) \notin {32, 64} THEN TxError
    ELSE IF ~JsonUnmarshalOk(rawTx) THEN TxError
    ELSE LET privateKeyBytes == IF Len(HexDecode(privateKeyHex)) = 32
                                THEN SeedOverRandomKey(HexDecode(privateKeyHex), r)
                                ELSE HexDecode(privateKeyHex)
         IN TxResult("ok",
                     TonSignedPrefix \o HexEncode(Ed25519Sign(privateKeyBytes, Sha256(rawTx))),
                     TonHashPrefix \o HexEncode(Sha256(rawTx)))

TonTransactionSigner_VerifyTransaction(rawTx, signatureHex, publicKeyHex) ==
    IF ~HexValid(publicKeyHex) THEN VerifyError
    ELSE IF Len(HexDecode(publicKeyHex)) # 32 THEN VerifyError
    ELSE IF ~HexValid(signatureHex) THEN VerifyError
    ELSE VerifyResult("ok", Ed25519Verify(HexDecode(publicKeyHex), Sha256(rawTx),
                                          HexDecode(signatureHex)))

AptosSignedPrefix == <<97, 112, 116, 111, 115, 95, 115, 105, 103, 110, 101, 100, 95>>  \* "aptos_signed_"

AptosHashPrefix == <<97, 112, 116, 111, 115, 95>>  \* "aptos_"

AptosTransactionSigner_SignTransaction(rawTx, privateKeyHex, r) ==
    IF ~HexValid(privateKeyHex) THEN TxError
    ELSE IF Len(HexDecode(privateKeyHex)) \notin {32, 64} THEN TxError
    ELSE IF ~JsonUnmarshalOk(rawTx) THEN TxError
    ELSE LET privateKeyBytes == IF Len(HexDecode(privateKeyHex)) = 32
                                THEN SeedOverRandomKey(HexDecode(privateKeyHex), r)
                                ELSE HexDecode(privateKeyHex)
         IN TxResult("ok",
                     AptosSignedPrefix \o HexEncode(Ed25519Sign(privateKeyBytes, Sha256(rawTx))),
                     AptosHashPrefix \o HexEncode(Sha256(rawTx)))

\* a verification that reports a signature of another key as an error: the
\* (false, nil) of C3 tells it from the code
AptosTransactionSigner_VerifyOrError(rawTx, signatureHex, publicKeyHex) ==
    IF ~HexValid(publicKeyHex) THEN VerifyError
    ELSE IF Len(HexDecode(publicKeyHex)) # 32 THEN VerifyError
    ELSE IF ~HexValid(signatureHex) THEN VerifyError
    ELSE IF Ed25519Verify(HexDecode(publicKeyHex), Sha256(rawTx), HexDecode(signatureHex))
    THEN VerifyResult("ok", TRUE)
    ELSE VerifyError

AptosTransactionSigner_VerifyTransaction(rawTx, signatureHex, publicKeyHex) ==
    IF ~HexValid(publicKeyHex) THEN VerifyError
    ELSE IF Len(HexDecode(publicKeyHex)) # 32 THEN VerifyError
    ELSE IF ~HexValid(signatureHex) THEN VerifyError
    ELSE VerifyResult("ok", Ed25519Verify(HexDecode(publicKeyHex), Sha256(rawTx),
                                          HexDecode(signatureHex)))

(* ---------------------------------------------------------------------- *)
(* The KeyGenerator implementations, by name                               *)
(* ---------------------------------------------------------------------- *)
PrefixedGenerators ==
    {"GenericSolana", "GenericSui", "GenericAda", "GenericPolkadot", "GenericTon"}

Generators ==
    {"Eth", "Btc", "Tron", "Solana", "Sui", "Aptos", "Ton", "Polkadot", "Ada", "Ed25519Ada",
     "GenericEth", "GenericBtc", "GenericTron"} \cup PrefixedGenerators

PrefixOf(g) ==
    IF g = "GenericSolana" THEN GenericSolanaPrefix
    ELSE IF g = "GenericSui" THEN GenericSuiPrefix
    ELSE IF g = "GenericAda" THEN GenericAdaPrefix
    ELSE IF g = "GenericPolkadot" THEN GenericPolkadotPrefix
    ELSE GenericTonPrefix

\* bytes of the public key kept in the address: [:32] for TON, [:20] otherwise
PrefixBytesOf(g) == IF g = "GenericTon" THEN 32 ELSE 20

GenerateKeyPair(g, k) ==
    CASE g = "Eth" -> EthKeyGenerator_GenerateKeyPair(k)
      [] g = "Btc" -> BtcKeyGenerator_GenerateKeyPair(k)
      [] g = "Tron" -> TronKeyGenerator_GenerateKeyPair(k)
      [] g = "Solana" -> SolanaKeyGenerator_GenerateKeyPair(k)
      [] g = "Sui" -> SuiKeyGenerator_GenerateKeyPair(k)
      [] g = "Aptos" -> AptosKeyGenerator_GenerateKeyPair(k)
      [] g = "Ton" -> TonKeyGenerator_GenerateKeyPair(k)
      [] g = "Polkadot" -> PolkadotKeyGenerator_GenerateKeyPair(k)
      [] g = "Ada" -> AdaKeyGenerator_GenerateKeyPair(k)
      [] g = "Ed25519Ada" -> Ed25519Ada_GenerateKeyPair(k)
      [] g = "GenericEth" -> GenericEthKeyGenerator_GenerateKeyPair(k)
      [] g = "GenericBtc" -> GenericBtcKeyGenerator_GenerateKeyPair(k)
      [] g = "GenericTron" -> GenericTronKeyGenerator_GenerateKeyPair(k)
      [] OTHER -> PrefixedGenerateKeyPair(PrefixOf(g), PrefixBytesOf(g), k)

\* r is the outcome of the random source where the method consults it
DeriveKeyPairFromPrivateKey(g, privateKey, r) ==
    CASE g = "Eth" -> EthKeyGenerator_DeriveKeyPairFromPrivateKey(privateKey)
      [] g = "Btc" -> BtcKeyGenerator_DeriveKeyPairFromPrivateKey(privateKey)
      [] g = "Tron" -> TronKeyGenerator_DeriveKeyPairFromPrivateKey(privateKey)
      [] g = "Solana" -> SolanaKeyGenerator_DeriveKeyPairFromPrivateKey(privateKey)
      [] g = "Sui" -> SuiKeyGenerator_DeriveKeyPairFromPrivateKey(privateKey, r)
      [] g = "Aptos" -> AptosKeyGenerator_DeriveKeyPairFromPrivateKey(privateKey, r)
      [] g = "Ton" -> TonKeyGenerator_DeriveKeyPairFromPrivateKey(privateKey)
      [] g = "Polkadot" -> PolkadotKeyGenerator_DeriveKeyPairFromPrivateKey(privateKey)
      [] g = "Ada" -> AdaKeyGenerator_DeriveKeyPairFromPrivateKey(privateKey)
      [] g = "Ed25519Ada" -> Ed25519Ada_DeriveKeyPairFromPrivateKey(privateKey)
      [] g = "GenericEth" -> GenericEthKeyGenerator_DeriveKeyPairFromPrivateKey(privateKey)
      [] g = "GenericBtc" -> GenericBtcKeyGenerator_DeriveKeyPairFromPrivateKey(privateKey)
      [] g = "GenericTron" -> GenericTronKeyGenerator_DeriveKeyPairFromPrivateKey(privateKey)
      [] OTHER -> PrefixedDeriveKeyPairFromPrivateKey(PrefixOf(g), PrefixBytesOf(g), privateKey)

PublicKeyToAddress(g, publicKey) ==
    CASE g = "Eth" -> EthKeyGenerator_PublicKeyToAddress(publicKey)
      [] g = "Btc" -> BtcKeyGenerator_PublicKeyToAddress(publicKey)
      [] g = "Tron" -> TronKeyGenerator_PublicKeyToAddress(publicKey)
      [] g = "Solana" -> SolanaKeyGenerator_PublicKeyToAddress(publicKey)
      [] g = "Sui" -> SuiKeyGenerator_PublicKeyToAddress(publicKey)
      [] g = "Aptos" -> AptosKeyGenerator_PublicKeyToAddress(publicKey)
      [] g = "Ton" -> TonKeyGenerator_PublicKeyToAddress(publicKey)
      [] g = "Polkadot" -> PolkadotKeyGenerator_PublicKeyToAddress(publicKey)
      [] g = "Ada" -> AdaKeyGenerator_PublicKeyToAddress(publicKey)
      [] g = "Ed25519Ada" -> Ed25519Ada_PublicKeyToAddress(publicKey)
      [] g = "GenericEth" -> GenericEthKeyGenerator_PublicKeyToAddress(publicKey)
      [] g = "GenericBtc" -> GenericBtcKeyGenerator_PublicKeyToAddress(publicKey)
      [] g = "GenericTron" -> GenericTronKeyGenerator_PublicKeyToAddress(publicKey)
      [] OTHER -> PrefixedPublicKeyToAddress(PrefixOf(g), PrefixBytesOf(g), publicKey)

\* the generators whose Derive reads the random source
DeriveUsesRandom(g) == g \in {"Sui", "Aptos"}

(* ---------------------------------------------------------------------- *)
(* internal/crypto/transaction_signer.go: the signers behind               *)
(* TransactionService                                                      *)
(* ---------------------------------------------------------------------- *)
SignedInfix == <<95, 115, 105, 103, 110, 101, 100, 95>>  \* "_signed_"

\* btcec (v1) PrivateKey.Serialize: the scalar's bytes without leading
\* zeros, left-padded to 32
RECURSIVE StripLeadingZeros(_)
StripLeadingZeros(b) ==
    IF Len(b) > 0 /\ b[1] = 0 THEN StripLeadingZeros(SliceFrom(b, 1)) ELSE b

PrivateKeySerialize(b) ==
    LET d == StripLeadingZeros(b)
    IN IF Len(d) >= 32 THEN d ELSE Fill(0, 32 - Len(d)) \o d

Internal_EthTransactionSigner_SignTransaction(rawTx, privateKeyHex) ==
    IF ~HexValid(privateKeyHex) THEN TxError
    ELSE IF ~ToECDSAValid(HexDecode(privateKeyHex)) THEN TxError
    ELSE LET signedTx == <<48, 120>> \o HexEncode(HexDecode(privateKeyHex))
                             \o SignedInfix \o rawTx
         IN TxResult("ok", signedTx, <<48, 120>> \o HexEncode(Keccak256(signedTx)))

Internal_BtcTransactionSigner_SignTransaction(rawTx, privateKeyHex) ==
    IF ~HexValid(privateKeyHex) THEN TxError
    ELSE LET signedTx == HexEncode(PrivateKeySerialize(HexDecode(privateKeyHex)))
                             \o SignedInfix \o rawTx
         IN TxResult("ok", signedTx,
                     <<98, 116, 99, 95>> \o HexEncode(Keccak256(signedTx)))  \* "btc_"

\* the prefix of the placeholder signers of Solana, TRON, SUI, Cardano,
\* Polkadot/Kusama and TON
InternalPrefix(signer) ==
    IF signer = "Solana" THEN <<115, 111, 108, 95>>             \* "sol_"
    ELSE IF signer = "Tron" THEN <<116, 114, 111, 110, 95>>     \* "tron_"
    ELSE IF signer = "Sui" THEN <<115, 117, 105, 95>>           \* "sui_"
    ELSE IF signer = "Ada" THEN <<97, 100, 97, 95>>             \* "ada_"
    ELSE IF signer = "Polkadot" THEN <<100, 111, 116, 95>>      \* "dot_"
    ELSE <<116, 111, 110, 95>>                                  \* "ton_"

Internal_PlaceholderSignTransaction(signer, rawTx, privateKeyHex) ==
    IF ~HexValid(privateKeyHex) THEN TxError
    ELSE LET signedTx == InternalPrefix(signer) \o HexEncode(HexDecode(privateKeyHex))
                             \o SignedInfix \o rawTx
         IN TxResult("ok", signedTx, InternalPrefix(signer) \o HexEncode(Keccak256(signedTx)))

\* NewTransactionSigner over the identifiers of internal/model
Internal_NewTransactionSigner(chainType) ==
    IF chainType \in {"ethereum", "avalanche"} THEN "Eth"
    ELSE IF chainType = "bitcoin" THEN "Btc"
    ELSE IF chainType = "solana" THEN "Solana"
    ELSE IF chainType = "tron" THEN "Tron"
    ELSE IF chainType = "sui" THEN "Sui"
    ELSE IF chainType = "cardano" THEN "Ada"
    ELSE IF chainType \in {"polkadot", "kusama"} THEN "Polkadot"
    ELSE IF chainType = "ton" THEN "Ton"
    ELSE "unsupported"

Internal_SignTransaction(signer, rawTx, privateKeyHex) ==
    IF signer = "Eth" THEN Internal_EthTransactionSigner_SignTransaction(rawTx, privateKeyHex)
    ELSE IF signer = "Btc"
    THEN Internal_BtcTransactionSigner_SignTransaction(rawTx, privateKeyHex)
    ELSE Internal_PlaceholderSignTransaction(signer, rawTx, privateKeyHex)

(* ---------------------------------------------------------------------- *)
(* lib/keystore: private keys in files by address and by user              *)
(* ---------------------------------------------------------------------- *)
\* keys: the key_<address>.txt files; userKeys: the entries of the
\* user_<id>_private_keys.json files
EmptyKeystore == [keys |-> {}, userKeys |-> {}]

SavePrivateKey(ks, address, privateKey) ==
    [ks EXCEPT !.keys = {f \in @ : f.address # address}
                            \cup {[address |-> address, privateKey |-> privateKey]}]

SaveUserPrivateKey(ks, userID, chainType, privateKey) ==
    [ks EXCEPT !.userKeys =
        {f \in @ : f.userID # userID \/ f.chainType # chainType}
            \cup {[userID |-> userID, chainType |-> chainType, privateKey |-> privateKey]}]

\* (privateKey, error)
Keystore_GetPrivateKey(ks, address) ==
    IF \E f \in ks.keys : f.address = address
    THEN [st |-> "ok", privateKey |-> (CHOOSE f \in ks.keys : f.address = address).privateKey]
    ELSE [st |-> "err", privateKey |-> Empty]

Keystore_GetUserPrivateKey(ks, userID, chainType) ==
    IF \E f \in ks.userKeys : f.userID = userID /\ f.chainType = chainType
    THEN [st |-> "ok",
          privateKey |-> (CHOOSE f \in ks.userKeys :
                             f.userID = userID /\ f.chainType = chainType).privateKey]
    ELSE [st |-> "err", privateKey |-> Empty]

\* error when the file does not exist
DeletePrivateKey(ks, address) ==
    IF \E f \in ks.keys : f.address = address
    THEN [st |-> "ok", ks |-> [ks EXCEPT !.keys = {f \in @ : f.address # address}]]
    ELSE [st |-> "err", ks |-> ks]

(* ---------------------------------------------------------------------- *)
(* The database of web/model/key.go: PublicKey, Address and Transaction    *)
(* rows; public_key, address and tx_hash are unique columns                *)
(* ---------------------------------------------------------------------- *)
EmptyDb == [publicKeys |-> {}, addresses |-> {}, transactions |-> {},
            publicKeyID |-> 0, addressID |-> 0, transactionID |-> 0]

\* no row was found
NoRow == [id |-> 0]

\* the row a Get or the head of a Find returns: the one of lowest id
FirstRow(rows) == IF rows = {} THEN NoRow ELSE CHOOSE r \in rows : \A q \in rows : r.id <= q.id

\* the identifiers of web/model/key.go
ChainTypes == {"ethereum", "bitcoin", "avalanche", "solana", "tron", "sui", "ada",
               "polkadot", "kusama", "ton"}

\* util.GetCurveAndEncoding, over the identifiers of internal/model
GetCurveAndEncoding(chainType) ==
    IF chainType \in {"ethereum", "avalanche"}
    THEN [curve |-> "secp256k1", encoding |-> "ethereum_address"]
    ELSE IF chainType = "bitcoin"
    THEN [curve |-> "secp256k1", encoding |-> "bitcoin_public_key"]
    ELSE IF chainType = "solana" THEN [curve |-> "ed25519", encoding |-> "solana_address"]
    ELSE IF chainType = "tron" THEN [curve |-> "secp256k1", encoding |-> "tron_address"]
    ELSE IF chainType = "sui" THEN [curve |-> "ed25519", encoding |-> "sui_address"]
    ELSE IF chainType = "cardano" THEN [curve |-> "ed25519", encoding |-> "cardano_address"]
    ELSE IF chainType \in {"polkadot", "kusama"}
    THEN [curve |-> "sr25519", encoding |-> "ss58_address"]
    ELSE IF chainType = "ton" THEN [curve |-> "ed25519", encoding |-> "ton_address"]
    ELSE [curve |-> "unknown", encoding |-> "unknown"]

\* the package declares several types of one name; a build holds either the
\* types of key_generator.go ("generic") or the ones of the per-chain files,
\* with the AdaKeyGenerator of ada_key_generator.go ("hd") or the Ed25519 one
Builds == {"generic", "hd", "ed25519"}

\* NewKeyGenerator, over the identifiers of web/model
NewKeyGenerator(b, chainType) ==
    LET name == IF chainType \in {"ethereum", "avalanche"} THEN "Eth"
                ELSE IF chainType = "bitcoin" THEN "Btc"
                ELSE IF chainType = "solana" THEN "Solana"
                ELSE IF chainType = "tron" THEN "Tron"
                ELSE IF chainType = "sui" THEN "Sui"
                ELSE IF chainType = "ada" THEN "Ada"
                ELSE IF chainType \in {"polkadot", "kusama"} THEN "Polkadot"
                ELSE IF chainType = "ton" THEN "Ton"
                ELSE "unsupported"
    IN IF name = "unsupported" THEN name
       ELSE IF b = "generic" THEN "Generic" \o name
       ELSE IF b = "ed25519" /\ name = "Ada" THEN "Ed25519Ada"
       ELSE name

(* ---------------------------------------------------------------------- *)
(* KeyService (web/service/key_service.go)                                 *)
(* ---------------------------------------------------------------------- *)
\* (*model.KeyPair, error): the two rows of a key pair
KeyPairResult(st, publicKey, address) == [st |-> st, publicKey |-> publicKey, address |-> address]

KeyPairError == KeyPairResult("err", NoRow, NoRow)

\* a lookup of the existing key pair through the PublicKey rows' chain_type,
\* a column that no insert sets: the Address.chain_type of C23 tells it from
\* the code
checkExistingAddress_ByPublicKeyChainType(d, userID, chainType) ==
    LET existingPublicKey ==
            FirstRow({p \in d.publicKeys : p.userID = userID /\ p.chainType = chainType})
        existingAddress ==
            FirstRow({a \in d.addresses : a.publicKey = existingPublicKey.publicKey})
    IN IF existingPublicKey = NoRow \/ existingAddress = NoRow
       THEN KeyPairResult("none", NoRow, NoRow)
       ELSE KeyPairResult("ok", existingPublicKey, existingAddress)

checkExistingAddress(d, userID, chainType) ==
    LET existingAddress ==
            FirstRow({a \in d.addresses : a.userID = userID /\ a.chainType = chainType})
        existingPublicKey ==
            FirstRow({p \in d.publicKeys : p.publicKey = existingAddress.publicKey})
    IN IF existingAddress = NoRow \/ existingPublicKey = NoRow
       THEN KeyPairResult("none", NoRow, NoRow)
       ELSE KeyPairResult("ok", existingPublicKey, existingAddress)

\* Insert(publicKey), Insert(address), and Delete(publicKey) when the
\* address cannot be inserted; ids are given in insertion order
saveKeyPairToDatabase(d, userID, chainType, curve, encoding, publicKeyValue, addressValue) ==
    LET publicKey == [id |-> d.publicKeyID + 1, userID |-> userID, chainType |-> "",
                      publicKey |-> publicKeyValue, curve |-> curve]
        address == [id |-> d.addressID + 1, publicKey |-> publicKeyValue, userID |-> userID,
                    chainType |-> chainType, address |-> addressValue, encoding |-> encoding]
    IN IF \E p \in d.publicKeys : p.publicKey = publicKeyValue
       THEN [db |-> d, res |-> KeyPairError]
       ELSE IF \E a \in d.addresses : a.address = addressValue
       THEN [db |-> [d EXCEPT !.publicKeyID = @ + 1], res |-> KeyPairError]
       ELSE [db |-> [d EXCEPT !.publicKeys = @ \cup {publicKey}, !.publicKeyID = @ + 1,
                              !.addresses = @ \cup {address}, !.addressID = @ + 1],
             res |-> KeyPairResult("ok", publicKey, address)]

\* the key pair each generator makes of each outcome of the random source
GeneratedKeyPairs == [g \in Generators |-> [k \in KeyIds |-> GenerateKeyPair(g, k)]]

\* generateNewKeyPair writing the private key by user only, as
\* saveDerivedKeyPair does: the by-address entry of C25 tells it from the code
saveGeneratedKeyPair_ByUserOnly(d, ks, userID, chainType, gen, saved) ==
    IF gen.st # "ok" THEN [db |-> d, ks |-> ks, res |-> KeyPairResult(gen.st, NoRow, NoRow)]
    ELSE [db |-> saved.db,
          ks |-> SaveUserPrivateKey(ks, userID, chainType, gen.privateKey),
          res |-> saved.res]

\* generateNewKeyPair once the generator has returned gen: the private key
\* is written by address and by user, then the rows are inserted
saveGeneratedKeyPair(d, ks, userID, chainType, gen, saved) ==
    IF gen.st # "ok" THEN [db |-> d, ks |-> ks, res |-> KeyPairResult(gen.st, NoRow, NoRow)]
    ELSE [db |-> saved.db,
          ks |-> SaveUserPrivateKey(SavePrivateKey(ks, gen.address, gen.privateKey),
                                    userID, chainType, gen.privateKey),
          res |-> saved.res]

generatedKeyPair(generator, k) ==
    IF generator = "unsupported" THEN KeyError ELSE GeneratedKeyPairs[generator][k]

saveGenerated(d, ks, userID, chainType, curve, encoding, gen) ==
    saveGeneratedKeyPair(d, ks, userID, chainType, gen,
                         saveKeyPairToDatabase(d, userID, chainType, curve, encoding,
                                               gen.publicKey, gen.address))

generateNewKeyPair(d, ks, b, userID, chainType, curve, encoding, k) ==
    IF NewKeyGenerator(b, chainType) = "unsupported"
    THEN [db |-> d, ks |-> ks, res |-> KeyPairError]
    ELSE saveGenerated(d, ks, userID, chainType, curve, encoding,
                       generatedKeyPair(NewKeyGenerator(b, chainType), k))

saveDerivedKeyPair(d, ks, userID, chainType, curve, encoding, publicKeyValue, addressValue, privateKey) ==
    LET saved == saveKeyPairToDatabase(d, userID, chainType, curve, encoding,
                                       publicKeyValue, addressValue)
    IN [db |-> saved.db, ks |-> SaveUserPrivateKey(ks, userID, chainType, privateKey),
        res |-> saved.res]

\* deriveKeyPairFromExisting once the calls it makes have returned:
\* toAddress from PublicKeyToAddress(publicKey), privateKey from
\* GetUserPrivateKey, derived from DeriveKeyPairFromPrivateKey, fresh from
\* generateNewKeyPair
deriveFromResults(d, ks, userID, chainType, curve, encoding, publicKey, toAddress, privateKey, derived, fresh) ==
    IF toAddress.st = "panic"
    THEN [db |-> d, ks |-> ks, res |-> KeyPairResult("panic", NoRow, NoRow)]
    ELSE IF privateKey.st = "err" THEN fresh
    ELSE IF toAddress.st = "ok"
    THEN saveDerivedKeyPair(d, ks, userID, chainType, curve, encoding, publicKey,
                            toAddress.address, privateKey.privateKey)
    ELSE IF derived.st = "panic"
    THEN [db |-> d, ks |-> ks, res |-> KeyPairResult("panic", NoRow, NoRow)]
    ELSE IF derived.st = "err" THEN fresh
    ELSE saveDerivedKeyPair(d, ks, userID, chainType, curve, encoding, derived.publicKey,
                            derived.address, privateKey.privateKey)

\* the row existingPublicKeys[0] carries no chain type: none is set on insert
deriveWithKey(d, ks, b, generator, publicKey, privateKey, userID, chainType, curve, encoding, k) ==
    deriveFromResults(d, ks, userID, chainType, curve, encoding, publicKey,
                      PublicKeyToAddress(generator, publicKey), privateKey,
                      DeriveKeyPairFromPrivateKey(generator, privateKey.privateKey, k),
                      generateNewKeyPair(d, ks, b, userID, chainType, curve, encoding, k))

deriveKeyPairFromExisting(d, ks, b, existingPublicKeys, userID, chainType, curve, encoding, k) ==
    IF NewKeyGenerator(b, chainType) = "unsupported"
    THEN [db |-> d, ks |-> ks, res |-> KeyPairError]
    ELSE deriveWithKey(d, ks, b, NewKeyGenerator(b, chainType),
                       FirstRow(existingPublicKeys).publicKey,
                       Keystore_GetUserPrivateKey(ks, userID,
                                                  FirstRow(existingPublicKeys).chainType),
                       userID, chainType, curve, encoding, k)

generateOrDerive(d, ks, b, userID, chainType, ce, k) ==
    IF {p \in d.publicKeys : p.userID = userID /\ p.curve = ce.curve} # {}
    THEN deriveKeyPairFromExisting(
             d, ks, b, {p \in d.publicKeys : p.userID = userID /\ p.curve = ce.curve},
             userID, chainType, ce.curve, ce.encoding, k)
    ELSE generateNewKeyPair(d, ks, b, userID, chainType, ce.curve, ce.encoding, k)

KeyService_GenerateKeyPair(d, ks, b, userID, chainType, k) ==
    LET existingKeyPair == checkExistingAddress(d, userID, chainType)
    IN IF userID = "" \/ chainType = "" THEN [db |-> d, ks |-> ks, res |-> KeyPairError]
       ELSE IF existingKeyPair.st = "ok" THEN [db |-> d, ks |-> ks, res |-> existingKeyPair]
       ELSE generateOrDerive(d, ks, b, userID, chainType, GetCurveAndEncoding(chainType), k)

GetKeyPairByID(d, id) ==
    LET address == FirstRow({a \in d.addresses : a.id = id})
        publicKey == FirstRow({p \in d.publicKeys : p.publicKey = address.publicKey})
    IN IF address = NoRow \/ publicKey = NoRow THEN KeyPairResult("none", NoRow, NoRow)
       ELSE KeyPairResult("ok", publicKey, address)

KeyService_GetPrivateKey(d, ks, addressValue) ==
    IF addressValue = Empty THEN [st |-> "err", privateKey |-> Empty]
    ELSE IF ~\E a \in d.addresses : a.address = addressValue
    THEN [st |-> "err", privateKey |-> Empty]
    ELSE Keystore_GetPrivateKey(ks, addressValue)

\* nil without a change when no such key pair exists
DeleteKeyPair(d, ks, id) ==
    LET keyPair == GetKeyPairByID(d, id)
        deleted == DeletePrivateKey(ks, keyPair.address.address)
    IN IF keyPair.st # "ok" THEN [db |-> d, ks |-> ks, st |-> "ok"]
       ELSE IF deleted.st = "err" THEN [db |-> d, ks |-> ks, st |-> "err"]
       ELSE [db |-> [d EXCEPT !.addresses = {a \in @ : a.id # keyPair.address.id},
                              !.publicKeys = {p \in @ : p.id # keyPair.publicKey.id}],
             ks |-> deleted.ks, st |-> "ok"]

(* ---------------------------------------------------------------------- *)
(* TransactionService (internal/service/transaction_service.go)            *)
(* ---------------------------------------------------------------------- *)
\* the insert of the Transaction row made of the signer's result
insertTransaction(d, keyPair, rawTx, res) ==
    IF res.st = "err" THEN [db |-> d, res |-> TxError]
    ELSE IF \E t \in d.transactions : t.txHash = res.txHash
    THEN [db |-> d, res |-> TxError]
    ELSE [db |-> [d EXCEPT !.transactions = @ \cup
                      {[id |-> d.transactionID + 1, userID |-> keyPair.address.userID,
                        keyPairID |-> keyPair.address.id,
                        chainType |-> keyPair.address.chainType, txHash |-> res.txHash,
                        rawTx |-> rawTx, signedTx |-> res.signedTx, status |-> "signed"]},
                          !.transactionID = @ + 1],
          res |-> res]

signWithKey(d, keyPair, privateKey, signer, rawTx) ==
    IF privateKey.st = "err" THEN [db |-> d, res |-> TxError]
    ELSE IF signer = "unsupported" THEN [db |-> d, res |-> TxError]
    ELSE insertTransaction(d, keyPair, rawTx,
                           Internal_SignTransaction(signer, rawTx, privateKey.privateKey))

TransactionService_SignTransaction(d, ks, keyPairID, rawTx) ==
    LET keyPair == GetKeyPairByID(d, keyPairID)
    IN IF keyPairID <= 0 \/ rawTx = Empty THEN [db |-> d, res |-> TxError]
       ELSE IF keyPair.st # "ok" THEN [db |-> d, res |-> TxError]
       ELSE signWithKey(d, keyPair, KeyService_GetPrivateKey(d, ks, keyPair.address.address),
                        Internal_NewTransactionSigner(keyPair.address.chainType), rawTx)

(* ---------------------------------------------------------------------- *)
(* State: a caller holding one generator or signer, its last generated key *)
(* pair, its last signature and the last call with its result; for the    *)
(* services, the database and the keystore                                *)
(* ---------------------------------------------------------------------- *)
VARIABLES kp, signed, op, out, build, db, keystore, calls

vars == <<kp, signed, op, out, build, db, keystore, calls>>

\* what only the services use: the build's generator types, the database
\* and the keystore directory
serviceVars == <<build, db, keystore>>

NoKeyPair == [gen |-> "none", st |-> "none", address |-> Empty, publicKey |-> Empty,
              privateKey |-> Empty]

\* no signer is held and nothing was signed
NoSigned == [signer |-> "none", st |-> "none", rawTx |-> Empty, privateKey |-> Empty,
             signature |-> Empty, msgTx |-> Empty]

\* a call: the method, the implementation it is called on, the key argument,
\* the transaction and signature arguments, the outcome of the random source
Call(name, target, input, rawTx, signature, r) ==
    [name |-> name, target |-> target, input |-> input, rawTx |-> rawTx,
     signature |-> signature, r |-> r]

NoCall == Call("none", "none", Empty, Empty, Empty, 0)

\* the goroutines that serve requests at the same time
Goroutines == {"g1", "g2"}

\* a goroutine's call: the method, where it is in the method's code, its
\* arguments and locals (the key pair made or derived, the content read
\* from user_<id>_private_keys.json, the PublicKey row inserted), whether
\* its SaveUserPrivateKey has returned nil, and what the method returned
IdleCall ==
    [name |-> "none", pc |-> "idle", userID |-> "", chainType |-> "", curve |-> "",
     encoding |-> "", gen |-> KeyResult("none", Empty, Empty, Empty), byAddress |-> FALSE,
     userKeys |-> {}, publicKey |-> NoRow, saved |-> FALSE,
     res |-> KeyPairResult("none", NoRow, NoRow)]

\* no request is being served
NoCalls == [g \in Goroutines |-> IdleCall]

NotHexString == <<105, 110, 118, 97, 108, 105, 100, 95, 112, 114, 105, 118, 97, 116, 101, 95, 107, 101, 121>>  \* "invalid_private_key"

OddHexString == <<97, 98, 99>>  \* "abc"

\* hex of 00..01 with n bytes
SmallKeyHex(n) == HexEncode(Fill(0, n - 1) \o <<1>>)

MalformedPrivateKeys == {NotHexString, SmallKeyHex(31), SmallKeyHex(33), SmallKeyHex(63)}

SeedHex(k) == HexEncode(RandomBytes32(k))

ExpandedKeyHex(k) == HexEncode(Ed25519GenerateKey(k))

PrivateKeyInputs ==
    MalformedPrivateKeys \cup {SeedHex(k) : k \in KeyIds} \cup {ExpandedKeyHex(k) : k \in KeyIds}
        \cup {HexEncode(Fill(0, 32))}
        \cup (IF kp.st = "ok" THEN {kp.privateKey} ELSE {})

PublicKeyInputs ==
    {NotHexString, SmallKeyHex(10)}
        \cup {HexEncode(CompressPubkey(SecpPoint(RandomBytes32(k)))) : k \in KeyIds}
        \cup {HexEncode(Ed25519PublicOfSeed(RandomBytes32(k))) : k \in KeyIds}
        \cup (IF kp.st = "ok" THEN {kp.publicKey} ELSE {})

\* NewKeyGenerator has returned one of the generators; nothing was called
Init ==
    /\ kp \in {[NoKeyPair EXCEPT !.gen = g] : g \in Generators}
    /\ signed = NoSigned
    /\ op = NoCall
    /\ out = KeyResult("none", Empty, Empty, Empty)
    /\ build = "none"
    /\ db = EmptyDb
    /\ keystore = EmptyKeystore
    /\ calls = NoCalls

CallGenerateKeyPair ==
    \E k \in KeyIds :
        LET res == GenerateKeyPair(kp.gen, k)
        IN /\ kp' = [gen |-> kp.gen, st |-> res.st, address |-> res.address,
                     publicKey |-> res.publicKey, privateKey |-> res.privateKey]
           /\ op' = Call("GenerateKeyPair", kp.gen, Empty, Empty, Empty, k)
           /\ out' = res
           /\ UNCHANGED <<signed, serviceVars, calls>>

CallDeriveKeyPairFromPrivateKey ==
    \E privateKey \in PrivateKeyInputs :
        \E r \in (IF DeriveUsesRandom(kp.gen) THEN KeyIds ELSE {1}) :
            /\ op' = Call("DeriveKeyPairFromPrivateKey", kp.gen, privateKey, Empty, Empty, r)
            /\ out' = DeriveKeyPairFromPrivateKey(kp.gen, privateKey, r)
            /\ UNCHANGED <<kp, signed, serviceVars, calls>>

CallPublicKeyToAddress ==
    \E publicKey \in PublicKeyInputs :
        /\ op' = Call("PublicKeyToAddress", kp.gen, publicKey, Empty, Empty, 0)
        /\ out' = PublicKeyToAddress(kp.gen, publicKey)
        /\ UNCHANGED <<kp, signed, serviceVars, calls>>

\* the two Cardano generators take the address type and the network
CallPublicKeyToAddressWithOptions ==
    /\ kp.gen \in {"Ada", "Ed25519Ada"}
    /\ \E publicKey \in PublicKeyInputs, addressType \in {"base", "enterprise"},
          networkType \in {"mainnet", "testnet"} :
        /\ op' = Call("PublicKeyToAddressWithOptions", kp.gen, publicKey,
                      <<addressType, networkType>>, Empty, 0)
        /\ out' = IF kp.gen = "Ada"
                  THEN AdaKeyGenerator_PublicKeyToAddressWithOptions(publicKey, addressType, networkType)
                  ELSE Ed25519Ada_PublicKeyToAddressWithOptions(publicKey, addressType, networkType)
        /\ UNCHANGED <<kp, signed, serviceVars, calls>>

Next ==
    \/ CallGenerateKeyPair
    \/ CallDeriveKeyPairFromPrivateKey
    \/ CallPublicKeyToAddress
    \/ CallPublicKeyToAddressWithOptions

Spec == Init /\ [][Next]_vars

(* ---------------------------------------------------------------------- *)
(* BtcTransactionSigner (btc_signer.go) over btcd's wire and txscript      *)
(* ---------------------------------------------------------------------- *)
Reverse(s) == [i \in 1..Len(s) |-> s[Len(s) + 1 - i]]

\* encoding/binary little endian, n bytes, of a value below 2^31
LittleEndian(v, n) ==
    [i \in 1..n |-> IF i = 1 THEN v % 256
                    ELSE IF i = 2 THEN (v \div 256) % 256
                    ELSE IF i = 3 THEN (v \div 65536) % 256
                    ELSE IF i = 4 THEN (v \div 16777216) % 256
                    ELSE 0]

\* wire.WriteVarInt for the lengths that occur (below 2^16)
VarInt(n) == IF n < 253 THEN <<n>> ELSE <<253>> \o LittleEndian(n, 2)

\* chainhash.NewHashFromStr: at most 64 hex digits, an odd string padded
\* with a leading zero, the bytes stored in reverse order
NewHashFromStr(str) ==
    LET src == IF Len(str) % 2 = 1 THEN <<48>> \o str ELSE str
    IN IF Len(str) > 64 \/ ~HexValid(src) THEN [st |-> "err", hash |-> Empty]
       ELSE [st |-> "ok",
             hash |-> Reverse(Fill(0, 32 - Len(src) \div 2) \o HexDecode(src))]

\* the bytes an opcode at position i occupies (opcode, length field, data)
OpcodeSize(script, i) ==
    LET opc == script[i]
    IN IF opc >= 1 /\ opc <= 75 THEN 1 + opc
       ELSE IF opc = 76 THEN (IF i + 1 <= Len(script) THEN 2 + script[i + 1] ELSE 2)
       ELSE IF opc = 77
            THEN (IF i + 2 <= Len(script)
                  THEN 3 + script[i + 1] + 256 * script[i + 2] ELSE 3)
       ELSE IF opc = 78
            THEN (IF i + 4 > Len(script) THEN 5
                  ELSE IF script[i + 3] > 0 \/ script[i + 4] > 0 THEN 5 + 65536
                  ELSE 5 + script[i + 1] + 256 * script[i + 2])
       ELSE 1

\* txscript's tokenizer over the script from position i, opcodes equal to
\* drop left out: [ok |-> the script parses, script |-> what is kept]
RECURSIVE Tokenize(_, _, _)
Tokenize(script, i, drop) ==
    IF i > Len(script) THEN [ok |-> TRUE, script |-> Empty]
    ELSE LET n == OpcodeSize(script, i)
         IN IF i + n - 1 > Len(script) THEN [ok |-> FALSE, script |-> Empty]
            ELSE LET rest == Tokenize(script, i + n, drop)
                 IN [ok |-> rest.ok,
                     script |-> IF script[i] = drop THEN rest.script
                                ELSE Slice(script, i - 1, i + n - 1) \o rest.script]

\* ScriptBuilder.AddData of 1 to 75 bytes that are no small integer: the
\* length as the opcode, then the data
AddData(data) == <<Len(data)>> \o data

\* wire.MsgTx serialization without witness data: version 1, the inputs
\* (outpoint, script, sequence 0xffffffff), the outputs, lock time 0
SerializeInputs(txIn) ==
    [i \in 1..Len(txIn) |->
        txIn[i].hash \o LittleEndian(txIn[i].index, 4)
            \o VarInt(Len(txIn[i].signatureScript)) \o txIn[i].signatureScript
            \o <<255, 255, 255, 255>>]

SerializeOutputs(txOut) ==
    [i \in 1..Len(txOut) |->
        LittleEndian(txOut[i].value, 8) \o VarInt(Len(txOut[i].pkScript)) \o txOut[i].pkScript]

RECURSIVE Concat(_, _)
Concat(parts, i) == IF i > Len(parts) THEN Empty ELSE parts[i] \o Concat(parts, i + 1)

Serialize(msgTx) ==
    LittleEndian(1, 4) \o VarInt(Len(msgTx.txIn)) \o Concat(SerializeInputs(msgTx.txIn), 1)
        \o VarInt(Len(msgTx.txOut)) \o Concat(SerializeOutputs(msgTx.txOut), 1)
        \o LittleEndian(0, 4)

\* txscript.CalcSignatureHash with SigHashAll for input idx: the script must
\* parse; OP_CODESEPARATOR (0xab) is removed, every other input's script is
\* blanked, and the copy is hashed twice with the 4-byte hash type appended
CalcSignatureHash(script, msgTx, idx) ==
    LET tok == Tokenize(script, 1, 171)
        txCopy == [msgTx EXCEPT !.txIn =
                      [i \in 1..Len(msgTx.txIn) |->
                          [msgTx.txIn[i] EXCEPT !.signatureScript =
                              IF i = idx THEN tok.script ELSE Empty]]]
    IN IF ~tok.ok THEN [st |-> "err", hash |-> Empty]
       ELSE [st |-> "ok", hash |-> DoubleSha256(Serialize(txCopy) \o LittleEndian(1, 4))]

\* createP2PKHScript: push(sigHash[:32] || hashType), push(compressed key)
createP2PKHScript(sigHash, privKey) ==
    AddData(Slice(sigHash, 0, 32) \o <<1>>) \o AddData(CompressPubkey(SecpPoint(privKey)))

\* a decoded request: json is whether json.Unmarshal accepted the text; an
\* input is (txid, vout, scriptPubKey), an output is (amount, scriptPubKey)
BtcTransactionRequest(json, inputs, outputs) ==
    [json |-> json, inputs |-> inputs, outputs |-> outputs]

BtcTxInput(txid, vout, scriptPubKey) ==
    [txid |-> txid, vout |-> vout, scriptPubKey |-> scriptPubKey]

BtcTxOutput(amount, scriptPubKey) == [amount |-> amount, scriptPubKey |-> scriptPubKey]

\* the transaction before signing: wire.NewTxIn / wire.NewTxOut per entry
BtcNewMsgTx(txReq) ==
    [txIn |-> [i \in 1..Len(txReq.inputs) |->
                  [hash |-> NewHashFromStr(txReq.inputs[i].txid).hash,
                   index |-> txReq.inputs[i].vout,
                   signatureScript |-> Empty]],
     txOut |-> [i \in 1..Len(txReq.outputs) |->
                  [value |-> txReq.outputs[i].amount,
                   pkScript |-> HexDecode(txReq.outputs[i].scriptPubKey)]]]

\* the signing loop; the signature hash of input i blanks every other
\* input's script, so the scripts set in earlier rounds do not enter it
BtcSignInputs(txReq, privKey) ==
    LET msgTx == BtcNewMsgTx(txReq)
    IN [msgTx EXCEPT !.txIn =
           [i \in 1..Len(msgTx.txIn) |->
               [msgTx.txIn[i] EXCEPT !.signatureScript =
                   createP2PKHScript(
                       CalcSignatureHash(HexDecode(txReq.inputs[i].scriptPubKey), msgTx, i).hash,
                       privKey)]]]

BtcSignedPrefix == <<98, 116, 99, 95, 115, 105, 103, 110, 101, 100, 95>>  \* "btc_signed_"

BtcTransactionSigner_SignTransaction(txReq, privateKey) ==
    IF ~txReq.json THEN TxError
    ELSE IF \E i \in 1..Len(txReq.inputs) : NewHashFromStr(txReq.inputs[i].txid).st = "err"
    THEN TxError
    ELSE IF \E i \in 1..Len(txReq.outputs) : ~HexValid(txReq.outputs[i].scriptPubKey)
    THEN TxError
    ELSE IF ~HexValid(privateKey) THEN TxError
    ELSE IF \E i \in 1..Len(txReq.inputs) :
               \/ ~HexValid(txReq.inputs[i].scriptPubKey)
               \/ CalcSignatureHash(HexDecode(txReq.inputs[i].scriptPubKey),
                                    BtcNewMsgTx(txReq), i).st = "err"
    THEN TxError
    ELSE LET msgTx == BtcSignInputs(txReq, SetByteSlice(HexDecode(privateKey)))
         IN TxResult("ok", BtcSignedPrefix \o HexEncode(Serialize(msgTx)),
                     HexEncode(Reverse(DoubleSha256(Serialize(msgTx)))))

\* VerifyTransactionSignature: (true, nil) for every input
BtcTransactionSigner_VerifyTransactionSignature(signedTx, publicKey) ==
    VerifyResult("ok", TRUE)

(* ---------------------------------------------------------------------- *)
(* TronTransactionSigner (SignTransaction and VerifyTransaction over       *)
(* go-ethereum's recoverable secp256k1 signatures, symbolic)               *)
(* ---------------------------------------------------------------------- *)
\* crypto.Sign: R || S || V, 65 bytes, V the recovery id 0 or 1
EthCryptoSign(hash, d) ==
    Expand(Digest(53, d \o hash), 64) \o <<Digest(59, d \o hash) % 2>>

\* the private keys signatures are made with, in hex
SecpKeyInputs == {SeedHex(k) : k \in KeyIds} \cup {SmallKeyHex(32)}

\* crypto.SigToPub: an error unless the signature has 65 bytes and a
\* recovery id below 4; the signer's key for a signature of this hash; for
\* any other R, S either no point (R is not on the curve) or a point that
\* belongs to none of the keys
SigToPub(hash, sig) ==
    IF Len(sig) # 65 THEN [st |-> "err", pub |-> SecpPoint(Fill(0, 32))]
    ELSE IF sig[65] > 3 THEN [st |-> "err", pub |-> SecpPoint(Fill(0, 32))]
    ELSE IF \E key \in SecpKeyInputs : sig = EthCryptoSign(hash, HexDecode(key))
    THEN [st |-> "ok",
          pub |-> SecpPoint(HexDecode(CHOOSE key \in SecpKeyInputs :
                                          sig = EthCryptoSign(hash, HexDecode(key))))]
    ELSE IF Digest(71, hash \o sig) % 2 = 0 THEN [st |-> "err", pub |-> SecpPoint(Fill(0, 32))]
    ELSE [st |-> "ok", pub |-> [x |-> Expand(Digest(71, hash \o sig), 32),
                                y |-> SecpY(Expand(Digest(71, hash \o sig), 32))]]

\* signedTx is the hex of the signature, txHash the hex of Keccak-256(rawTx)
TronTransactionSigner_SignTransaction(rawTx, privateKeyHex) ==
    IF ~JsonUnmarshalOk(rawTx) THEN TxError
    ELSE IF ~HexValid(privateKeyHex) THEN TxError
    ELSE IF ~ToECDSAValid(HexDecode(privateKeyHex)) THEN TxError
    ELSE TxResult("ok", HexEncode(EthCryptoSign(Keccak256(rawTx), HexDecode(privateKeyHex))),
                  HexEncode(Keccak256(rawTx)))

\* the public key parsed by its length: compressed (33) or uncompressed (65)
TronParsePublicKey(publicKeyBytes) ==
    IF Len(publicKeyBytes) = 33
    THEN [ok |-> DecompressPubkeyValid(publicKeyBytes), pub |-> DecompressPubkey(publicKeyBytes)]
    ELSE [ok |-> UnmarshalPubkeyValid(publicKeyBytes), pub |-> UnmarshalPubkey(publicKeyBytes)]

\* the addresses of the recovered and of the supplied key are compared
TronTransactionSigner_VerifyTransaction(rawTx, signedTx, publicKeyHex) ==
    IF ~HexValid(signedTx) THEN VerifyError
    ELSE IF ~HexValid(publicKeyHex) THEN VerifyError
    ELSE IF Len(HexDecode(signedTx)) = 0 THEN VerifyError
    ELSE IF Len(HexDecode(publicKeyHex)) \notin {33, 65} THEN VerifyError
    ELSE IF ~TronParsePublicKey(HexDecode(publicKeyHex)).ok THEN VerifyError
    ELSE IF SigToPub(Keccak256(rawTx), HexDecode(signedTx)).st = "err" THEN VerifyError
    ELSE VerifyResult("ok",
                      PubkeyToAddress(SigToPub(Keccak256(rawTx), HexDecode(signedTx)).pub)
                          = PubkeyToAddress(TronParsePublicKey(HexDecode(publicKeyHex)).pub))

(* ---------------------------------------------------------------------- *)
(* The Ed25519 signers that offer VerifyTransaction, by name               *)
(* ---------------------------------------------------------------------- *)
Ed25519Signers == {"Solana", "Sui", "Ton", "Aptos"}

SignTransaction(s, rawTx, privateKeyHex, r) ==
    IF s = "Solana" THEN SolanaTransactionSigner_SignTransaction(rawTx, privateKeyHex)
    ELSE IF s = "Sui" THEN SuiTransactionSigner_SignTransaction(rawTx, privateKeyHex, r)
    ELSE IF s = "Ton" THEN TonTransactionSigner_SignTransaction(rawTx, privateKeyHex, r)
    ELSE AptosTransactionSigner_SignTransaction(rawTx, privateKeyHex, r)

VerifyTransaction(s, rawTx, signatureHex, publicKeyHex) ==
    IF s = "Solana" THEN SolanaTransactionSigner_VerifyTransaction(rawTx, signatureHex, publicKeyHex)
    ELSE IF s = "Sui" THEN SuiTransactionSigner_VerifyTransaction(rawTx, signatureHex, publicKeyHex)
    ELSE IF s = "Ton" THEN TonTransactionSigner_VerifyTransaction(rawTx, signatureHex, publicKeyHex)
    ELSE AptosTransactionSigner_VerifyTransaction(rawTx, signatureHex, publicKeyHex)

\* the signers that take a 32-byte seed as well as a 64-byte private key
SignUsesRandom(s) == s \in {"Sui", "Ton", "Aptos"}

\* the hex signature carried in signedTx: what follows the signer's prefix
SignatureOf(s, signedTx) ==
    IF s = "Ton" THEN SliceFrom(signedTx, Len(TonSignedPrefix))
    ELSE IF s = "Aptos" THEN SliceFrom(signedTx, Len(AptosSignedPrefix))
    ELSE signedTx

(* ---------------------------------------------------------------------- *)
(* A caller of one signer: SignTransaction and VerifyTransaction calls     *)
(* ---------------------------------------------------------------------- *)
SeqnoTx(n) == <<123, 34, 115, 101, 113, 110, 111, 34, 58, 48 + n, 125>>  \* {"seqno":n}

NotJsonTx == <<110, 111, 116, 32, 106, 115, 111, 110>>  \* "not json"

RawTxInputs == {SeqnoTx(1), NotJsonTx}

SignKeyInputs(s) ==
    {ExpandedKeyHex(k) : k \in KeyIds} \cup {NotHexString, SmallKeyHex(31)}
        \cup (IF SignUsesRandom(s) THEN {SeedHex(1)} ELSE {})

SignatureInputs == {signed.signature, NotHexString, SmallKeyHex(63), HexEncode(Fill(1, 64))}

VerifyKeyInputs ==
    {HexEncode(Ed25519PublicOfSeed(RandomBytes32(k))) : k \in KeyIds}
        \cup {NotHexString, SmallKeyHex(31)}

\* requests given to the Bitcoin signer
TxIdHex(n) == HexEncode(Fill(n, 32))

\* OP_DUP OP_HASH160 <20 bytes> OP_EQUALVERIFY OP_CHECKSIG of key k, in hex
P2PKHScriptHex(k) ==
    HexEncode(<<118, 169, 20>> \o Hash160(CompressPubkey(SecpPoint(RandomBytes32(k))))
                  \o <<136, 172>>)

BtcRequests ==
    { BtcTransactionRequest(TRUE, <<BtcTxInput(TxIdHex(1), 0, P2PKHScriptHex(1))>>,
                            <<BtcTxOutput(5000, P2PKHScriptHex(2))>>),
      BtcTransactionRequest(TRUE, <<BtcTxInput(TxIdHex(1), 0, P2PKHScriptHex(1)),
                                    BtcTxInput(TxIdHex(2), 1, P2PKHScriptHex(1))>>,
                            <<BtcTxOutput(70000, P2PKHScriptHex(2))>>),
      BtcTransactionRequest(FALSE, <<>>, <<>>),
      BtcTransactionRequest(TRUE, <<BtcTxInput(NotHexString, 0, P2PKHScriptHex(1))>>,
                            <<BtcTxOutput(5000, P2PKHScriptHex(2))>>),
      BtcTransactionRequest(TRUE, <<BtcTxInput(TxIdHex(1), 0, <<52, 99>>)>>,
                            <<BtcTxOutput(5000, P2PKHScriptHex(2))>>),
      BtcTransactionRequest(TRUE, <<BtcTxInput(TxIdHex(1), 0, P2PKHScriptHex(1))>>,
                            <<BtcTxOutput(5000, NotHexString)>>) }

BtcKeyInputs == {SeedHex(k) : k \in KeyIds} \cup {NotHexString, SmallKeyHex(31)}

\* a signer was constructed; nothing was signed
SignerInit ==
    /\ kp = NoKeyPair
    /\ signed \in {[NoSigned EXCEPT !.signer = s] : s \in Ed25519Signers \cup {"Btc", "Tron"}}
    /\ op = NoCall
    /\ out = TxResult("none", Empty, Empty)
    /\ build = "none"
    /\ db = EmptyDb
    /\ keystore = EmptyKeystore
    /\ calls = NoCalls

CallSignTransaction ==
    /\ signed.signer \in Ed25519Signers
    /\ \E rawTx \in RawTxInputs, privateKey \in SignKeyInputs(signed.signer) :
        \E r \in (IF privateKey = SeedHex(1) THEN KeyIds ELSE {1}) :
            LET res == SignTransaction(signed.signer, rawTx, privateKey, r)
            IN /\ op' = Call("SignTransaction", signed.signer, privateKey, rawTx, Empty, r)
               /\ out' = res
               /\ signed' = IF res.st = "ok"
                            THEN [signer |-> signed.signer, st |-> "ok", rawTx |-> rawTx,
                                  privateKey |-> privateKey,
                                  signature |-> SignatureOf(signed.signer, res.signedTx),
                                  msgTx |-> Empty]
                            ELSE [NoSigned EXCEPT !.signer = signed.signer]
               /\ UNCHANGED <<kp, serviceVars, calls>>

CallVerifyTransaction ==
    /\ signed.signer \in Ed25519Signers
    /\ signed.st = "ok"
    /\ \E rawTx \in {signed.rawTx, SeqnoTx(2)}, signature \in SignatureInputs,
          publicKey \in VerifyKeyInputs :
        /\ op' = Call("VerifyTransaction", signed.signer, publicKey, rawTx, signature, 0)
        /\ out' = VerifyTransaction(signed.signer, rawTx, signature, publicKey)
        /\ UNCHANGED <<kp, signed, serviceVars, calls>>

CallBtcSignTransaction ==
    /\ signed.signer = "Btc"
    /\ \E txReq \in BtcRequests, privateKey \in BtcKeyInputs :
        LET res == BtcTransactionSigner_SignTransaction(txReq, privateKey)
        IN /\ op' = Call("SignTransaction", "Btc", privateKey, txReq, Empty, 0)
           /\ out' = res
           /\ signed' = IF res.st = "ok"
                        THEN [signer |-> "Btc", st |-> "ok", rawTx |-> txReq,
                              privateKey |-> privateKey, signature |-> res.signedTx,
                              msgTx |-> BtcSignInputs(txReq, SetByteSlice(HexDecode(privateKey)))]
                        ELSE [NoSigned EXCEPT !.signer = "Btc"]
           /\ UNCHANGED <<kp, serviceVars, calls>>

CallBtcVerifyTransactionSignature ==
    /\ signed.signer = "Btc"
    /\ \E signedTx \in {signed.signature, NotHexString},
          publicKey \in {SmallKeyHex(33), NotHexString} :
        /\ op' = Call("VerifyTransactionSignature", "Btc", publicKey, Empty, signedTx, 0)
        /\ out' = BtcTransactionSigner_VerifyTransactionSignature(signedTx, publicKey)
        /\ UNCHANGED <<kp, signed, serviceVars, calls>>

\* public keys given to the TRON verification: compressed and uncompressed
\* keys of the signing keys, and malformed ones
TronVerifyKeyInputs ==
    {HexEncode(CompressPubkey(SecpPoint(HexDecode(key)))) : key \in SecpKeyInputs}
        \cup {HexEncode(FromECDSAPub(SecpPoint(RandomBytes32(k)))) : k \in KeyIds}
        \cup {NotHexString, SmallKeyHex(31), SmallKeyHex(33)}

\* signatures given to the TRON verification: the last one made, one with
\* a recovery id of 4, one of 64 bytes, R and S of no signer, none, no hex
TronSignatureInputs ==
    {signed.signature, HexEncode(Fill(1, 64) \o <<4>>), HexEncode(Fill(1, 64)),
     HexEncode(Fill(1, 64) \o <<0>>), HexEncode(Fill(2, 64) \o <<1>>), Empty, NotHexString}

CallTronSignTransaction ==
    /\ signed.signer = "Tron"
    /\ \E rawTx \in RawTxInputs, privateKey \in SecpKeyInputs \cup {NotHexString, SmallKeyHex(31)} :
        LET res == TronTransactionSigner_SignTransaction(rawTx, privateKey)
        IN /\ op' = Call("TronTransactionSigner.SignTransaction", "Tron", privateKey, rawTx, Empty, 0)
           /\ out' = res
           /\ signed' = IF res.st = "ok"
                        THEN [signer |-> "Tron", st |-> "ok", rawTx |-> rawTx,
                              privateKey |-> privateKey, signature |-> res.signedTx,
                              msgTx |-> Empty]
                        ELSE [NoSigned EXCEPT !.signer = "Tron"]
           /\ UNCHANGED <<kp, serviceVars, calls>>

CallTronVerifyTransaction ==
    /\ signed.signer = "Tron"
    /\ signed.st = "ok"
    /\ \E rawTx \in {signed.rawTx, SeqnoTx(2)}, signature \in TronSignatureInputs,
          publicKey \in TronVerifyKeyInputs :
        /\ op' = Call("TronTransactionSigner.VerifyTransaction", "Tron", publicKey, rawTx,
                      signature, 0)
        /\ out' = TronTransactionSigner_VerifyTransaction(rawTx, signature, publicKey)
        /\ UNCHANGED <<kp, signed, serviceVars, calls>>

SignerNext ==
    \/ CallSignTransaction
    \/ CallVerifyTransaction
    \/ CallBtcSignTransaction
    \/ CallBtcVerifyTransactionSignature
    \/ CallTronSignTransaction
    \/ CallTronVerifyTransaction

SignerSpec == SignerInit /\ [][SignerNext]_vars

(* ---------------------------------------------------------------------- *)
(* Callers of KeyService and TransactionService, one request at a time     *)
(* ---------------------------------------------------------------------- *)
MaxKeyPairs == 2

MaxTransactions == 1

UserIDs == {"u1"}

\* the chains requested: one per signer and generator family, and one that
\* no factory knows
RequestedChains == {"ethereum", "bitcoin", "tron", "solana", "ada", "dogecoin"}

\* a user asks for each chain; a second user asks for the chain whose
\* generator gives every key the same address; one request names no user,
\* one no chain
GenerateRequests ==
    (UserIDs \X RequestedChains) \cup {<<"u2", "tron">>, <<"", "ethereum">>, <<"u1", "">>}

\* a transaction for each key pair id, for no id and for an id never given;
\* one request without a transaction
SignRequests ==
    ((0..(MaxKeyPairs + 1)) \X {SeqnoTx(1)}) \cup {<<1, Empty>>}

\* the services were constructed over an empty database and keystore
ServiceInit ==
    /\ kp = NoKeyPair
    /\ signed = NoSigned
    /\ op = NoCall
    /\ out = KeyPairResult("none", NoRow, NoRow)
    /\ build \in Builds
    /\ db = EmptyDb
    /\ keystore = EmptyKeystore
    /\ calls = NoCalls

CallKeyServiceGenerateKeyPair ==
    /\ db.publicKeyID < MaxKeyPairs
    /\ \E request \in GenerateRequests, k \in KeyIds :
        LET userID == request[1]
            chainType == request[2]
            done == KeyService_GenerateKeyPair(db, keystore, build, userID, chainType, k)
        IN /\ op' = Call("KeyService.GenerateKeyPair", chainType, userID, Empty, Empty, k)
           /\ out' = done.res
           /\ db' = done.db
           /\ keystore' = done.ks
           /\ UNCHANGED <<kp, signed, build, calls>>

CallKeyServiceDeleteKeyPair ==
    \E id \in 1..MaxKeyPairs :
        LET done == DeleteKeyPair(db, keystore, id)
        IN /\ op' = Call("KeyService.DeleteKeyPair", "", id, Empty, Empty, 0)
           /\ out' = KeyPairResult(done.st, NoRow, NoRow)
           /\ db' = done.db
           /\ keystore' = done.ks
           /\ UNCHANGED <<kp, signed, build, calls>>

CallTransactionServiceSignTransaction ==
    /\ db.transactionID < MaxTransactions
    /\ \E request \in SignRequests :
        LET keyPairID == request[1]
            rawTx == request[2]
            done == TransactionService_SignTransaction(db, keystore, keyPairID, rawTx)
        IN /\ op' = Call("TransactionService.SignTransaction", "", keyPairID, rawTx, Empty, 0)
           /\ out' = done.res
           /\ db' = done.db
           /\ UNCHANGED <<kp, signed, build, keystore, calls>>

ServiceNext ==
    \/ CallKeyServiceGenerateKeyPair
    \/ CallKeyServiceDeleteKeyPair
    \/ CallTransactionServiceSignTransaction

ServiceSpec == ServiceInit /\ [][ServiceNext]_vars

(* ---------------------------------------------------------------------- *)
(* math/big and TextBigInt (eth_signer.go): an integer is a sign and its   *)
(* magnitude in bits, lowest bit first, no leading zero bit                *)
(* ---------------------------------------------------------------------- *)
BigInt(neg, mag) == [neg |-> neg /\ mag # Empty, mag |-> mag]

RECURSIVE BitsOf(_)
BitsOf(c) == IF c = 0 THEN Empty ELSE <<c % 2>> \o BitsOf(c \div 2)

\* the bits of mag * m + carry from bit i on
RECURSIVE MulAdd(_, _, _, _)
MulAdd(mag, i, m, carry) ==
    IF i > Len(mag) THEN BitsOf(carry)
    ELSE <<(mag[i] * m + carry) % 2>> \o MulAdd(mag, i + 1, m, (mag[i] * m + carry) \div 2)

\* the digits s[i..] in the base appended to the magnitude acc
RECURSIVE ParseDigits(_, _, _, _)
ParseDigits(s, i, base, acc) ==
    IF i > Len(s) THEN acc
    ELSE ParseDigits(s, i + 1, base, MulAdd(acc, 1, base, FromHexChar(s[i])))

\* big.Int.SetString(s, base) for base 10 and 16: an optional sign, then
\* at least one digit of the base
SetString(s, base) ==
    LET hasSign == Len(s) > 0 /\ s[1] \in {43, 45}
        digits == IF hasSign THEN SliceFrom(s, 1) ELSE s
    IN IF Len(digits) = 0
          \/ \E i \in 1..Len(digits) :
                FromHexChar(digits[i]) < 0 \/ FromHexChar(digits[i]) >= base
       THEN [ok |-> FALSE, val |-> BigInt(FALSE, Empty)]
       ELSE [ok |-> TRUE,
             val |-> BigInt(hasSign /\ s[1] = 45, ParseDigits(digits, 1, base, Empty))]

\* float64 of an integer magnitude: 53 significant bits, the rest rounded
\* to nearest, ties to even
Float64Of(mag) ==
    IF Len(mag) <= 53 THEN mag
    ELSE LET n      == Len(mag) - 53
             guard  == mag[n] = 1
             sticky == \E i \in 1..(n - 1) : mag[i] = 1
             top    == SliceFrom(mag, n)
         IN Fill(0, n) \o (IF guard /\ (sticky \/ top[1] = 1) THEN MulAdd(top, 1, 1, 1) ELSE top)

\* a JSON number literal without exponent: sign, integer digits, fraction
JsonNumber(data) ==
    LET neg    == Len(data) > 0 /\ data[1] = 45
        body   == IF neg THEN SliceFrom(data, 1) ELSE data
        dot    == IF \E i \in 1..Len(body) : body[i] = 46
                  THEN CHOOSE i \in 1..Len(body) : body[i] = 46 /\ \A j \in 1..(i - 1) : body[j] # 46
                  ELSE Len(body) + 1
        int    == Slice(body, 0, dot - 1)
        frac   == IF dot <= Len(body) THEN SliceFrom(body, dot) ELSE Empty
    IN [ok |-> /\ Len(int) > 0
               /\ \A i \in 1..Len(int) : IsDigit(int[i])
               /\ (Len(int) > 1 => int[1] # 48)
               /\ \A i \in 1..Len(frac) : IsDigit(frac[i])
               /\ (dot <= Len(body) => Len(frac) > 0),
        neg |-> neg, int |-> int,
        whole |-> \A i \in 1..Len(frac) : frac[i] = 48]

\* json.Unmarshal(data, &str) returns nil: a string literal (without
\* escapes) or null, which leaves str empty
JsonIsString(data) ==
    \/ data = <<110, 117, 108, 108>>
    \/ /\ Len(data) >= 2 /\ data[1] = 34 /\ data[Len(data)] = 34
       /\ \A i \in 2..(Len(data) - 1) : data[i] \notin {34, 92} /\ data[i] >= 32

JsonStringOf(data) == IF data[1] = 34 THEN Slice(data, 1, Len(data) - 1) ELSE Empty

\* obj["_hex"].(string) of a one-member object: {"_hex":"..."}
HexMemberPrefix == <<123, 34, 95, 104, 101, 120, 34, 58, 34>>  \* {"_hex":"

JsonHasHexMember(data) ==
    /\ HasPrefix(data, HexMemberPrefix)
    /\ Len(data) >= Len(HexMemberPrefix) + 2
    /\ Slice(data, Len(data) - 2, Len(data)) = <<34, 125>>
    /\ \A i \in (Len(HexMemberPrefix) + 1)..(Len(data) - 2) : data[i] \notin {34, 92} /\ data[i] >= 32

JsonHexMember(data) == Slice(data, Len(HexMemberPrefix), Len(data) - 2)

\* (value, error) of UnmarshalJSON; "panic" is a run-time panic
BigResult(st, val) == [st |-> st, val |-> val]

BigError == BigResult("err", BigInt(FALSE, Empty))

\* a JSON number goes through float64 and int64 (magnitudes below 2^63)
TextBigInt_FromNumber(num) ==
    IF ~num.whole THEN BigError
    ELSE BigResult("ok", BigInt(num.neg, Float64Of(ParseDigits(num.int, 1, 10, Empty))))

TextBigInt_FromString(str) ==
    IF Len(str) > 2 /\ Slice(str, 0, 2) = <<48, 120>>
    THEN (IF SetString(SliceFrom(str, 2), 16).ok
          THEN BigResult("ok", SetString(SliceFrom(str, 2), 16).val) ELSE BigError)
    ELSE IF SetString(str, 10).ok THEN BigResult("ok", SetString(str, 10).val)
    ELSE BigError

\* hexStr[2:] is taken without a look at the length or the prefix
TextBigInt_FromHexMember(hexStr) ==
    IF Len(hexStr) < 2 THEN BigResult("panic", BigInt(FALSE, Empty))
    ELSE IF SetString(SliceFrom(hexStr, 2), 16).ok
    THEN BigResult("ok", SetString(SliceFrom(hexStr, 2), 16).val)
    ELSE BigError

\* data is one JSON value
TextBigInt_UnmarshalJSON(data) ==
    IF JsonIsString(data) THEN TextBigInt_FromString(JsonStringOf(data))
    ELSE IF JsonNumber(data).ok THEN TextBigInt_FromNumber(JsonNumber(data))
    ELSE IF JsonHasHexMember(data) THEN TextBigInt_FromHexMember(JsonHexMember(data))
    ELSE BigError

(* ---------------------------------------------------------------------- *)
(* EthTransactionSigner (eth_signer.go)                                    *)
(* ---------------------------------------------------------------------- *)

\* the numeric members of EthTransactionRequest, in the order of the struct
EthNumericFields == <<"gas", "gasPrice", "maxPriorityFeePerGas", "maxFeePerGas", "value", "nonce", "chainId">>

JsonNull == <<110, 117, 108, 108>>  \* null

\* rawTx as the JSON decoder sees it: whether it is a JSON object at all, the
\* two string members, and for every numeric member the text of its value
\* (Empty: the object has no such member), written in the struct's order
EthRawTx(valid, to, data, members) == [valid |-> valid, to |-> to, data |-> data, members |-> members]

\* a *TextBigInt member: nil without the member and for a null literal,
\* else what UnmarshalJSON makes of the value
EthDecodeMember(text) ==
    IF text = Empty \/ text = JsonNull THEN BigResult("nil", BigInt(FALSE, Empty))
    ELSE TextBigInt_UnmarshalJSON(text)

\* the first member in order whose UnmarshalJSON does not return nil (0: none)
RECURSIVE EthFirstFailure(_, _)
EthFirstFailure(members, i) ==
    IF i > Len(EthNumericFields) THEN 0
    ELSE IF EthDecodeMember(members[EthNumericFields[i]]).st \in {"err", "panic"} THEN i
    ELSE EthFirstFailure(members, i + 1)

\* json.Unmarshal([]byte(rawTx), &txReq): st is "ok", "err" or "panic"
EthTransactionRequest(rawTx) ==
    IF ~rawTx.valid THEN [st |-> "err"]
    ELSE IF EthFirstFailure(rawTx.members, 1) # 0
    THEN [st |-> EthDecodeMember(rawTx.members[EthNumericFields[EthFirstFailure(rawTx.members, 1)]]).st]
    ELSE [st |-> "ok", To |-> rawTx.to, Data |-> rawTx.data,
          Gas |-> EthDecodeMember(rawTx.members["gas"]),
          GasPrice |-> EthDecodeMember(rawTx.members["gasPrice"]),
          MaxPriorityFeePerGas |-> EthDecodeMember(rawTx.members["maxPriorityFeePerGas"]),
          MaxFeePerGas |-> EthDecodeMember(rawTx.members["maxFeePerGas"]),
          Value |-> EthDecodeMember(rawTx.members["value"]),
          Nonce |-> EthDecodeMember(rawTx.members["nonce"]),
          ChainID |-> EthDecodeMember(rawTx.members["chainId"])]

\* big.Int.Uint64: the low 64 bits of the magnitude
Uint64(x) == IF Len(x.mag) > 64 THEN SubSeq(x.mag, 1, 64) ELSE x.mag

\* the fields of the transaction object in the order they are encoded; 2
\* separates the items (the magnitudes hold 0 and 1 only)
EthTxPayload(txType, chainID, nonce, fees, gas, to, value, data) ==
    <<txType>> \o chainID.mag \o <<2>> \o Uint64(nonce) \o <<2>> \o fees \o <<2>>
        \o Uint64(gas) \o <<2>> \o to \o <<2>> \o value.mag \o <<2>> \o data

\* types.SignTx and MarshalBinary: the signature over the signer's hash of
\* the payload, and the encoding of payload and signature (symbolic)
EthSignedTxBytes(payload, d) ==
    <<(IF payload[1] = 2 THEN 2 ELSE 248)>>
        \o Expand(Digest(73, payload \o EthCryptoSign(Keccak256(payload), d)), 16)

TxPanic == TxResult("panic", Empty, Empty)

HexPrefix == <<48, 120>>  \* 0x

EthSignedResult(txBytes) ==
    TxResult("ok", HexPrefix \o HexEncode(txBytes), HexPrefix \o HexEncode(Keccak256(txBytes)))

EthBuildAndSign(txReq, d) ==
    LET value == IF txReq.Value.st = "nil" THEN BigInt(FALSE, Empty) ELSE txReq.Value.val
        useEIP1559 == txReq.MaxPriorityFeePerGas.st # "nil" /\ txReq.MaxFeePerGas.st # "nil"
        useLegacy == txReq.GasPrice.st # "nil"
    IN IF ~useEIP1559 /\ ~useLegacy THEN TxError
       ELSE IF useEIP1559
       THEN EthSignedResult(EthSignedTxBytes(
                EthTxPayload(2, txReq.ChainID.val, txReq.Nonce.val,
                             txReq.MaxPriorityFeePerGas.val.mag \o <<2>> \o txReq.MaxFeePerGas.val.mag,
                             txReq.Gas.val, txReq.To, value, txReq.Data), d))
       ELSE EthSignedResult(EthSignedTxBytes(
                EthTxPayload(0, txReq.ChainID.val, txReq.Nonce.val, txReq.GasPrice.val.mag,
                             txReq.Gas.val, txReq.To, value, txReq.Data), d))

EthSignWithRequest(txReq, d) ==
    IF txReq.st = "panic" THEN TxPanic
    ELSE IF txReq.st = "err" THEN TxError
    ELSE IF txReq.Nonce.st = "nil" THEN TxError
    ELSE IF txReq.Gas.st = "nil" THEN TxError
    ELSE IF txReq.ChainID.st = "nil" THEN TxError
    ELSE EthBuildAndSign(txReq, d)

EthTransactionSigner_SignTransaction(rawTx, privateKeyHex) ==
    IF ~HexValid(privateKeyHex) THEN TxError
    ELSE IF ~ToECDSAValid(HexDecode(privateKeyHex)) THEN TxError
    ELSE EthSignWithRequest(EthTransactionRequest(rawTx), HexDecode(privateKeyHex))

(* ---------------------------------------------------------------------- *)
(* The callers of the Ethereum signer and of TextBigInt                    *)
(* ---------------------------------------------------------------------- *)

\* non-negative integers by their decimal and their hexadecimal digits:
\* 0, 1, 255, 21000, 2^53 and 2^53 + 1
IntegerInputs ==
    {[dec |-> <<48>>, hex |-> <<48>>],
     [dec |-> <<49>>, hex |-> <<49>>],
     [dec |-> <<57, 48, 48, 55, 49, 57, 57, 50, 53, 52, 55, 52, 48, 57, 57, 50>>,
      hex |-> <<50, 48, 48, 48, 48, 48, 48, 48, 48, 48, 48, 48, 48, 48>>],
     [dec |-> <<50, 53, 53>>, hex |-> <<102, 102>>],
     [dec |-> <<50, 49, 48, 48, 48>>, hex |-> <<53, 50, 48, 56>>],
     [dec |-> <<57, 48, 48, 55, 49, 57, 57, 50, 53, 52, 55, 52, 48, 57, 57, 51>>,
      hex |-> <<50, 48, 48, 48, 48, 48, 48, 48, 48, 48, 48, 48, 48, 49>>]}

JsonQuote(s) == <<34>> \o s \o <<34>>

\* the four ways of writing a number in a request
DecimalString(n) == JsonQuote(n.dec)
HexString(n) == JsonQuote(HexPrefix \o n.hex)
JsonNumberText(n) == n.dec
HexObject(n) == HexMemberPrefix \o HexPrefix \o n.hex \o <<34, 125>>

IntegerForms(n) == {DecimalString(n), HexString(n), JsonNumberText(n), HexObject(n)}

\* 1.5 and 0.25
NonIntegerNumbers == {<<49, 46, 53>>, <<48, 46, 50, 53>>}

\* "abc", "0xzz", "", "1.5", "0x"
NonNumericStrings ==
    {<<34, 97, 98, 99, 34>>, <<34, 48, 120, 122, 122, 34>>, <<34, 34>>,
     <<34, 49, 46, 53, 34>>, <<34, 48, 120, 34>>}

\* {"_hex":"1"}, {"_hex":""}, {"_hex":"ff"}, true, "-1", null
OtherJsonValues ==
    {<<123, 34, 95, 104, 101, 120, 34, 58, 34, 49, 34, 125>>,
     <<123, 34, 95, 104, 101, 120, 34, 58, 34, 34, 125>>,
     <<123, 34, 95, 104, 101, 120, 34, 58, 34, 102, 102, 34, 125>>,
     <<116, 114, 117, 101>>, <<34, 45, 49, 34>>, JsonNull}

JsonValueInputs ==
    UNION {IntegerForms(n) : n \in IntegerInputs} \cup NonIntegerNumbers
        \cup NonNumericStrings \cup OtherJsonValues

EthMembers(gas, gasPrice, tip, cap, value, nonce, chainId) ==
    [f \in {EthNumericFields[i] : i \in 1..Len(EthNumericFields)} |->
        CASE f = "gas" -> gas
          [] f = "gasPrice" -> gasPrice
          [] f = "maxPriorityFeePerGas" -> tip
          [] f = "maxFeePerGas" -> cap
          [] f = "value" -> value
          [] f = "nonce" -> nonce
          [] f = "chainId" -> chainId]

\* 0x742d35Cc6634C0532925a3b844Bc454e4438f44e
EthToAddress == <<48, 120, 55, 52, 50, 100, 51, 53, 67, 99, 54, 54, 51, 52, 67, 48, 53, 51, 50, 57, 50, 53, 97, 51, 98, 56, 52, 52, 66, 99, 52, 53, 52, 101, 52, 52, 51, 56, 102, 52, 52, 101>>

\* "1000000000", "0x5208", 1 and {"_hex":"0x1"}
GweiText == <<34, 49, 48, 48, 48, 48, 48, 48, 48, 48, 48, 34>>
GasText == <<34, 48, 120, 53, 50, 48, 56, 34>>
NonceText == <<49>>
ChainIdText == <<123, 34, 95, 104, 101, 120, 34, 58, 34, 48, 120, 49, 34, 125>>

\* the requests: text that is no JSON object; objects with every combination
\* of fee members and a nonce that is a number, null or a _hex object
\* without the 0x; objects with a legacy fee, with and without the required
\* members
EthRawTxInputs ==
    {EthRawTx(FALSE, Empty, Empty, EthMembers(Empty, Empty, Empty, Empty, Empty, Empty, Empty))}
    \cup {EthRawTx(TRUE, to, HexPrefix, EthMembers(GasText, gasPrice, tip, cap, Empty, nonce, ChainIdText)) :
            to \in {Empty, EthToAddress},
            gasPrice \in {Empty, GweiText}, tip \in {Empty, NonceText, JsonNull},
            cap \in {Empty, GweiText},
            nonce \in {NonceText, JsonNull,
                       <<123, 34, 95, 104, 101, 120, 34, 58, 34, 49, 34, 125>>}}
    \cup {EthRawTx(TRUE, EthToAddress, HexPrefix, EthMembers(gas, GweiText, Empty, Empty, GasText, nonce, chainId)) :
            gas \in {Empty, GasText},
            nonce \in {Empty, NonceText, <<34, 97, 98, 99, 34>>},
            chainId \in {Empty, ChainIdText}}

\* the request of a legacy transfer
EthLegacyTx ==
    EthRawTx(TRUE, EthToAddress, HexPrefix, EthMembers(GasText, GweiText, Empty, Empty, Empty, NonceText, ChainIdText))

\* "18446744073709551617" (2^64 + 1), "0x10000000000005208" (2^64 + 21000)
\* and the number 9007199254740993 (2^53 + 1)
WideNonceText == <<34, 49, 56, 52, 52, 54, 55, 52, 52, 48, 55, 51, 55, 48, 57, 53, 53, 49, 54, 49, 55, 34>>
WideGasText == <<34, 48, 120, 49, 48, 48, 48, 48, 48, 48, 48, 48, 48, 48, 48, 48, 53, 50, 48, 56, 34>>
OddNonceNumber == <<57, 48, 48, 55, 49, 57, 57, 50, 53, 52, 55, 52, 48, 57, 57, 51>>

\* legacy transfers with a nonce or a gas limit of more than 64 bits, with a
\* nonce that no float64 holds, and with a value
EthWideTxInputs ==
    {EthRawTx(TRUE, EthToAddress, HexPrefix, EthMembers(GasText, GweiText, Empty, Empty, Empty, WideNonceText, ChainIdText)),
     EthRawTx(TRUE, EthToAddress, HexPrefix, EthMembers(WideGasText, GweiText, Empty, Empty, Empty, NonceText, ChainIdText)),
     EthRawTx(TRUE, EthToAddress, HexPrefix, EthMembers(GasText, GweiText, Empty, Empty, Empty, OddNonceNumber, ChainIdText)),
     EthRawTx(TRUE, EthToAddress, HexPrefix, EthMembers(GasText, GweiText, Empty, Empty, WideNonceText, NonceText, ChainIdText))}

\* every request with a well-formed key, two requests with the other keys
EthSignInputs ==
    {<<rawTx, SeedHex(1)>> : rawTx \in EthRawTxInputs \cup EthWideTxInputs}
    \cup {<<rawTx, privateKey>> :
            rawTx \in {EthLegacyTx, EthRawTx(FALSE, Empty, Empty, EthLegacyTx.members)},
            privateKey \in {NotHexString, SmallKeyHex(31), SmallKeyHex(33)}}

\* an Ethereum signer was constructed; nothing was called
EthInit ==
    /\ kp = NoKeyPair
    /\ signed = [NoSigned EXCEPT !.signer = "Eth"]
    /\ op = NoCall
    /\ out = TxResult("none", Empty, Empty)
    /\ build = "none"
    /\ db = EmptyDb
    /\ keystore = EmptyKeystore
    /\ calls = NoCalls

CallUnmarshalJSON ==
    \E data \in JsonValueInputs :
        /\ op' = Call("TextBigInt.UnmarshalJSON", "Eth", data, Empty, Empty, 0)
        /\ out' = TextBigInt_UnmarshalJSON(data)
        /\ UNCHANGED <<kp, signed, serviceVars, calls>>

CallEthSignTransaction ==
    \E in \in EthSignInputs :
        /\ op' = Call("EthTransactionSigner.SignTransaction", "Eth", in[2], in[1], Empty, 0)
        /\ out' = EthTransactionSigner_SignTransaction(in[1], in[2])
        /\ UNCHANGED <<kp, signed, serviceVars, calls>>

EthNext ==
    \/ CallUnmarshalJSON
    \/ CallEthSignTransaction

EthSpec == EthInit /\ [][EthNext]_vars

(* ---------------------------------------------------------------------- *)
(* The factories (factory.go, key_generator.go) and their callers          *)
(* ---------------------------------------------------------------------- *)

\* the constants of package model that factory.go is written against
ChainTypeConstants ==
    [ChainTypeETH |-> "ethereum", ChainTypeBTC |-> "bitcoin", ChainTypeSolana |-> "solana",
     ChainTypeTRON |-> "tron", ChainTypeSUI |-> "sui", ChainTypeADA |-> "cardano",
     ChainTypePolkadot |-> "polkadot", ChainTypeKusama |-> "kusama", ChainTypeTON |-> "ton",
     ChainTypeAvalanche |-> "avalanche", ChainTypeBSC |-> "binance_smart_chain",
     ChainTypePolygon |-> "polygon", ChainTypeAPTOS |-> "aptos"]

\* what a factory returns: the strategy (its type, "nil" for none, and the
\* IsKusama member of a PolkadotTransactionSigner) and whether err is set
FactoryResult(strategy, isKusama, isErr) == [strategy |-> strategy, IsKusama |-> isKusama, err |-> isErr]

FactoryError == FactoryResult("nil", FALSE, TRUE)

\* a factory that hands out the Polkadot signer unchanged for Kusama
NewTransactionSigner_OneSubstrateSigner(chainType) ==
    LET model == ChainTypeConstants
    IN IF chainType \in {model.ChainTypeETH, model.ChainTypeBSC, model.ChainTypePolygon,
                         model.ChainTypeAvalanche}
       THEN FactoryResult("EthTransactionSigner", FALSE, FALSE)
       ELSE IF chainType = model.ChainTypeBTC THEN FactoryResult("BtcTransactionSigner", FALSE, FALSE)
       ELSE IF chainType = model.ChainTypeSolana THEN FactoryResult("SolanaTransactionSigner", FALSE, FALSE)
       ELSE IF chainType = model.ChainTypeTRON THEN FactoryResult("TronTransactionSigner", FALSE, FALSE)
       ELSE IF chainType = model.ChainTypeSUI THEN FactoryResult("SuiTransactionSigner", FALSE, FALSE)
       ELSE IF chainType = model.ChainTypeADA THEN FactoryResult("AdaTransactionSigner", FALSE, FALSE)
       ELSE IF chainType \in {model.ChainTypePolkadot, model.ChainTypeKusama}
       THEN FactoryResult("PolkadotTransactionSigner", FALSE, FALSE)
       ELSE IF chainType = model.ChainTypeTON THEN FactoryResult("TonTransactionSigner", FALSE, FALSE)
       ELSE FactoryError


NewTransactionSigner(chainType) ==
    LET model == ChainTypeConstants
    IN IF chainType \in {model.ChainTypeETH, model.ChainTypeBSC, model.ChainTypePolygon,
                         model.ChainTypeAvalanche}
       THEN FactoryResult("EthTransactionSigner", FALSE, FALSE)
       ELSE IF chainType = model.ChainTypeBTC THEN FactoryResult("BtcTransactionSigner", FALSE, FALSE)
       ELSE IF chainType = model.ChainTypeSolana THEN FactoryResult("SolanaTransactionSigner", FALSE, FALSE)
       ELSE IF chainType = model.ChainTypeTRON THEN FactoryResult("TronTransactionSigner", FALSE, FALSE)
       ELSE IF chainType = model.ChainTypeSUI THEN FactoryResult("SuiTransactionSigner", FALSE, FALSE)
       ELSE IF chainType = model.ChainTypeADA THEN FactoryResult("AdaTransactionSigner", FALSE, FALSE)
       ELSE IF chainType = model.ChainTypePolkadot THEN FactoryResult("PolkadotTransactionSigner", FALSE, FALSE)
       ELSE IF chainType = model.ChainTypeKusama THEN FactoryResult("PolkadotTransactionSigner", TRUE, FALSE)
       ELSE IF chainType = model.ChainTypeTON THEN FactoryResult("TonTransactionSigner", FALSE, FALSE)
       ELSE FactoryError

\* NewKeyGenerator of build b compiled against these constants: its case
\* for model.ChainTypeADA is taken for "cardano"
Crypto_NewKeyGenerator(b, chainType) ==
    LET model == ChainTypeConstants
        name == IF chainType = model.ChainTypeADA THEN NewKeyGenerator(b, "ada")
                ELSE IF chainType = "ada" THEN "unsupported"
                ELSE NewKeyGenerator(b, chainType)
    IN IF name = "unsupported" THEN FactoryError ELSE FactoryResult(name, FALSE, FALSE)

\* the identifiers asked for: the values of the constants, the other
\* spelling of Cardano, and identifiers of no chain
ChainTypeInputs ==
    {ChainTypeConstants[c] : c \in DOMAIN ChainTypeConstants}
        \cup {"ada", "unsupported_chain", "", "Ethereum", "dogecoin"}

\* nothing was constructed
FactoryInit ==
    /\ kp = NoKeyPair
    /\ signed = NoSigned
    /\ op = NoCall
    /\ out = FactoryResult("none", FALSE, FALSE)
    /\ build \in Builds
    /\ db = EmptyDb
    /\ keystore = EmptyKeystore
    /\ calls = NoCalls

\* the caller keeps the generator it was given
CallNewKeyGenerator ==
    \E chainType \in ChainTypeInputs :
        LET res == Crypto_NewKeyGenerator(build, chainType)
        IN /\ op' = Call("NewKeyGenerator", build, chainType, Empty, Empty, 0)
           /\ out' = res
           /\ kp' = IF res.err THEN kp ELSE [NoKeyPair EXCEPT !.gen = res.strategy]
           /\ UNCHANGED <<signed, serviceVars, calls>>

\* the caller keeps the signer it was given
CallNewTransactionSigner ==
    \E chainType \in ChainTypeInputs :
        LET res == NewTransactionSigner(chainType)
        IN /\ op' = Call("NewTransactionSigner", "factory", chainType, Empty, Empty, 0)
           /\ out' = res
           /\ signed' = IF res.err THEN signed ELSE [NoSigned EXCEPT !.signer = res.strategy]
           /\ UNCHANGED <<kp, serviceVars, calls>>

FactoryNext ==
    \/ CallNewKeyGenerator
    \/ CallNewTransactionSigner

FactorySpec == FactoryInit /\ [][FactoryNext]_vars

(* ---------------------------------------------------------------------- *)
(* The callers of the Bech32m functions                                    *)
(* ---------------------------------------------------------------------- *)

\* the longest data that fits the length limit after a one-character HRP
MaxDataLen == 142

\* "addr", "a", "A", "a1", "1a", "~", " a"
HrpInputs ==
    {<<97, 100, 100, 114>>, <<97>>, <<65>>, <<97, 49>>, <<49, 97>>, <<126>>, <<32, 97>>}

DataInputs ==
    {Empty, <<3>>, <<16>>, <<0, 1, 2, 31>>, <<31, 31, 31, 31, 31, 31, 31, 31>>, <<32>>}

\* the short arguments; HRPs of 83 and of 84 characters; data of the
\* greatest length and one word more
EncodeInputs ==
    (HrpInputs \X DataInputs)
        \cup {<<Fill(97, 83), Empty>>, <<Fill(97, 84), Empty>>,
              <<(<<97>>), Fill(0, MaxDataLen)>>, <<(<<97>>), Fill(0, MaxDataLen + 1)>>}

\* the arguments that pass the encoder's first two checks, with the string
\* put together from them
Bech32Cases ==
    {[hrp |-> in[1], data |-> in[2], s |-> Bech32mString(in[1], in[2])] :
        in \in {e \in EncodeInputs : /\ \A i \in 1..Len(e[1]) : e[1][i] >= 33 /\ e[1][i] <= 126
                                     /\ \A i \in 1..Len(e[2]) : e[2][i] < 32}}

\* s with its last character replaced
WithLastChar(s, c) == [s EXCEPT ![Len(s)] = c]

\* s with its letters in upper case from position k on
UpperFrom(s, k) ==
    [i \in 1..Len(s) |-> IF i >= k /\ s[i] >= 97 /\ s[i] <= 122 THEN s[i] - 32 ELSE s[i]]

\* "addr1qpzl9jg4hk": addr and the words 0, 1, 2, 31
AddrString == <<97, 100, 100, 114, 49, 113, 112, 122, 108, 57, 106, 103, 52, 104, 107>>

\* the strings of the cases; AddrString with another checksum character,
\* with a character that is not in the charset, in upper case, with an
\* upper-case tail, without its HRP, without separator, cut short; nothing
Bech32StringInputs ==
    {c.s : c \in Bech32Cases}
        \cup {WithLastChar(AddrString, 108), WithLastChar(AddrString, 98),
              UpperFrom(AddrString, 1), UpperFrom(AddrString, 6), SliceFrom(AddrString, 4),
              SliceFrom(AddrString, 5), Slice(AddrString, 0, 10), Empty}

\* an Ada generator was constructed; nothing was called
Bech32Init ==
    /\ kp = [NoKeyPair EXCEPT !.gen = "Ada"]
    /\ signed = NoSigned
    /\ op = NoCall
    /\ out = EncodeResult("none", Empty)
    /\ build = "hd"
    /\ db = EmptyDb
    /\ keystore = EmptyKeystore
    /\ calls = NoCalls

CallEncodeBech32m ==
    \E in \in EncodeInputs :
        /\ op' = Call("encodeBech32m", "Ada", in[1], in[2], Empty, 0)
        /\ out' = EncodeBech32m(in[1], in[2])
        /\ UNCHANGED <<kp, signed, serviceVars, calls>>

CallDecodeBech32mWithChecksum ==
    \E s \in Bech32StringInputs :
        /\ op' = Call("decodeBech32mWithChecksum", "Ada", s, Empty, Empty, 0)
        /\ out' = decodeBech32mWithChecksum(s)
        /\ UNCHANGED <<kp, signed, serviceVars, calls>>

CallValidateBech32m ==
    \E s \in Bech32StringInputs :
        /\ op' = Call("validateBech32m", "Ada", s, Empty, Empty, 0)
        /\ out' = validateBech32m(s)
        /\ UNCHANGED <<kp, signed, serviceVars, calls>>

Bech32Next ==
    \/ CallEncodeBech32m
    \/ CallDecodeBech32mWithChecksum
    \/ CallValidateBech32m

Bech32Spec == Bech32Init /\ [][Bech32Next]_vars




(* ---------------------------------------------------------------------- *)
(* Properties of the key generators (checked under Spec)                   *)
(* ---------------------------------------------------------------------- *)
SeedGenerators == {"Sui", "Aptos", "Ton", "Ada", "Ed25519Ada"}

\* byte lengths a chain's private key may have: 32 for secp256k1, 64 for
\* Ed25519 (and Polkadot's 64-byte secret), 32 where a seed is accepted
RequiredLengths(g) ==
    IF g = "Solana" THEN {64}
    ELSE IF g \in SeedGenerators \cup {"Polkadot"} THEN {32, 64}
    ELSE {32}

\* C1: whenever GenerateKeyPair returned (address, publicKey, privateKey)
\* without error, DeriveKeyPairFromPrivateKey(privateKey) on the same
\* generator succeeds and returns the same address and the same publicKey.
C1_DeriveAgreesWithGenerate ==
    (op.name = "DeriveKeyPairFromPrivateKey" /\ kp.st = "ok" /\ op.input = kp.privateKey)
        => (out.st = "ok" /\ out.address = kp.address /\ out.publicKey = kp.publicKey)

\* a generated Ethereum key was re-derived
C1_Witness ==
    /\ op.name = "DeriveKeyPairFromPrivateKey"
    /\ kp.gen = "Eth" /\ kp.st = "ok" /\ op.input = kp.privateKey
    /\ out.st = "ok" /\ out.address = kp.address /\ Len(out.address) = 42

\* C5: DeriveKeyPairFromPrivateKey returns an error with an empty address
\* and an empty public key whenever the private key is not valid hex or
\* decodes to a length other than the ones the chain's curve requires.
C5_MalformedPrivateKeyIsRejected ==
    (/\ op.name = "DeriveKeyPairFromPrivateKey"
     /\ \/ ~HexValid(op.input)
        \/ Len(HexDecode(op.input)) \notin RequiredLengths(op.target))
        => (out.st = "err" /\ out.address = Empty /\ out.publicKey = Empty)

\* C6: on the generators that take a 32-byte seed, Derive is a function of
\* its input (two calls with the same key return the same result) and a
\* seed gives the result of the 64-byte key expanded from it.
C6_SeedDeriveIsDeterministic ==
    [][(op'.name = "DeriveKeyPairFromPrivateKey" /\ op'.target \in SeedGenerators)
        => /\ (op.name = "DeriveKeyPairFromPrivateKey" /\ op.input = op'.input) => out' = out
           /\ \A k \in KeyIds :
                op'.input = SeedHex(k)
                    => out' = DeriveKeyPairFromPrivateKey(op'.target, ExpandedKeyHex(k), 1)]_vars

\* C7: PublicKeyToAddress depends on the key alone, and on the public key
\* of a generated pair it succeeds with that pair's address.
C7_PublicKeyToAddressAgreesWithGenerate ==
    [][(op'.name = "PublicKeyToAddress")
        => /\ (op.name = "PublicKeyToAddress" /\ op.input = op'.input) => out' = out
           /\ (kp.st = "ok" /\ op'.input = kp.publicKey)
                => (out'.st = "ok" /\ out'.address = kp.address)]_vars

\* C8: TronKeyGenerator.PublicKeyToAddress gives two different valid public
\* keys two different addresses.
C8_TronAddressDependsOnKey ==
    (/\ op.name = "PublicKeyToAddress" /\ op.target = "Tron"
     /\ kp.st = "ok" /\ out.st = "ok"
     /\ op.input # kp.publicKey)
        => out.address # kp.address

(* ---------------------------------------------------------------------- *)
(* Properties of the Ed25519 signers (checked under SignerSpec)            *)
(* ---------------------------------------------------------------------- *)
\* the Ed25519 public key belonging to a private key given in hex: the key
\* of its seed, the first 32 bytes
PublicKeyOfPrivate(privateKeyHex) ==
    Ed25519PublicOfSeed(Slice(HexDecode(privateKeyHex), 0, 32))

\* C2: on Solana, SUI, TON and Aptos, SignTransaction succeeds for every
\* accepted private key (64 bytes, or a 32-byte seed where taken) and
\* well-formed rawTx, and VerifyTransaction of that rawTx with the signature
\* carried in signedTx and the public key of the private key is (true, nil).
C2_SignedTransactionVerifies ==
    /\ (/\ op.name = "SignTransaction"
         /\ HexValid(op.input)
         /\ Len(HexDecode(op.input)) \in (IF SignUsesRandom(op.target) THEN {32, 64} ELSE {64})
         /\ JsonUnmarshalOk(op.rawTx))
            => out.st = "ok"
    /\ (/\ op.name = "VerifyTransaction"
         /\ op.rawTx = signed.rawTx
         /\ op.signature = signed.signature
         /\ HexValid(op.input)
         /\ HexDecode(op.input) = PublicKeyOfPrivate(signed.privateKey))
            => out = VerifyResult("ok", TRUE)

\* C3: a signature made by SignTransaction with private key A, verified
\* with a well-formed public key that is not the public key of A, makes
\* VerifyTransaction return (false, nil): false and no error.
C3_OtherPublicKeyIsFalseNotError ==
    (/\ op.name = "VerifyTransaction"
     /\ op.signature = signed.signature
     /\ HexValid(op.input)
     /\ Len(HexDecode(op.input)) = 32
     /\ HexDecode(op.input) # PublicKeyOfPrivate(signed.privateKey))
        => out = VerifyResult("ok", FALSE)

\* an Aptos signature was verified under the other key and found false
C3_Witness ==
    /\ op.name = "VerifyTransaction" /\ op.target = "Aptos"
    /\ signed.st = "ok" /\ op.signature = signed.signature /\ op.rawTx = signed.rawTx
    /\ HexValid(op.input) /\ Len(HexDecode(op.input)) = 32
    /\ HexDecode(op.input) # PublicKeyOfPrivate(signed.privateKey)
    /\ out = VerifyResult("ok", FALSE)

\* C4: VerifyTransaction returns an error whenever the signature or the
\* public key is not valid hex or does not decode to its exact length
\* (64-byte signature, 32-byte public key).
C4_MalformedInputIsAnError ==
    (/\ op.name = "VerifyTransaction"
     /\ \/ ~HexValid(op.signature)
        \/ Len(HexDecode(op.signature)) # 64
        \/ ~HexValid(op.input)
        \/ Len(HexDecode(op.input)) # 32)
        => out = VerifyError

(* ---------------------------------------------------------------------- *)
(* Properties of BtcTransactionSigner (checked under SignerSpec)           *)
(* ---------------------------------------------------------------------- *)
\* an ECDSA/secp256k1 signature (symbolic, in DER layout) by the scalar d
EcdsaSignature(d, hash) ==
    <<48, 68, 2, 32>> \o Expand(Digest(61, d \o hash), 32)
        \o <<2, 32>> \o Expand(Digest(67, d \o hash), 32)

\* sig verifies under the compressed public key pub: pub is the key of one
\* of the scalars in use and sig is that scalar's signature of hash
EcdsaVerify(pub, hash, sig) ==
    \E key \in {k \in BtcKeyInputs : HexValid(k)} :
        LET d == SetByteSlice(HexDecode(key))
        IN pub = CompressPubkey(SecpPoint(d)) /\ sig = EcdsaSignature(d, hash)

\* C10: after a successful BtcTransactionSigner.SignTransaction every
\* input's unlocking script is push(sig || sighash type) push(compressed
\* public key of the private key), where sig is an ECDSA signature of that
\* input's signature hash that verifies under the pushed key.
C10_UnlockingScriptCarriesEcdsaSignature ==
    (op.name = "SignTransaction" /\ op.target = "Btc" /\ out.st = "ok")
        => \A i \in 1..Len(signed.msgTx.txIn) :
              LET script  == signed.msgTx.txIn[i].signatureScript
                  sigData == Slice(script, 1, 1 + script[1])
                  pub     == SliceFrom(script, 2 + script[1])
                  sigHash == CalcSignatureHash(HexDecode(op.rawTx.inputs[i].scriptPubKey),
                                               signed.msgTx, i).hash
              IN /\ script = AddData(sigData) \o AddData(pub)
                 /\ pub = CompressPubkey(SecpPoint(SetByteSlice(HexDecode(op.input))))
                 /\ sigData[Len(sigData)] = 1
                 /\ EcdsaVerify(pub, sigHash, Slice(sigData, 0, Len(sigData) - 1))

(* ---------------------------------------------------------------------- *)
(* Properties of the secp256k1 verifications (checked under SignerSpec)    *)
(* ---------------------------------------------------------------------- *)
\* the point a well-formed public key in hex stands for
SecpPublicKeyOf(publicKeyHex) == TronParsePublicKey(HexDecode(publicKeyHex)).pub

\* C11: TronTransactionSigner.VerifyTransaction and
\* BtcTransactionSigner.VerifyTransactionSignature answer true only when
\* the signature was made over that transaction by the private key of the
\* supplied public key, and false for a well-formed signature of another key.
C11_VerifiesOnlyTheSigningKey ==
    /\ (op.name = "TronTransactionSigner.VerifyTransaction" /\ out.valid)
            => \E key \in SecpKeyInputs :
                  /\ op.signature = HexEncode(EthCryptoSign(Keccak256(op.rawTx), HexDecode(key)))
                  /\ SecpPublicKeyOf(op.input) = SecpPoint(HexDecode(key))
    /\ (/\ op.name = "TronTransactionSigner.VerifyTransaction"
         /\ op.signature = signed.signature /\ op.rawTx = signed.rawTx
         /\ HexValid(op.input) /\ Len(HexDecode(op.input)) \in {33, 65}
         /\ TronParsePublicKey(HexDecode(op.input)).ok
         /\ SecpPublicKeyOf(op.input) # SecpPoint(HexDecode(signed.privateKey)))
            => out = VerifyResult("ok", FALSE)
    /\ (op.name = "VerifyTransactionSignature" /\ out.valid)
            => /\ signed.st = "ok" /\ op.signature = signed.signature
               /\ HexValid(op.input)
               /\ HexDecode(op.input)
                      = CompressPubkey(SecpPoint(SetByteSlice(HexDecode(signed.privateKey))))

(* ---------------------------------------------------------------------- *)
(* Properties of TransactionService (checked under ServiceSpec)            *)
(* ---------------------------------------------------------------------- *)
\* the private keys the keystore holds, by address and by user
StoredPrivateKeys ==
    {f.privateKey : f \in keystore.keys} \cup {f.privateKey : f \in keystore.userKeys}

\* the text carries one of the stored private keys
CarriesPrivateKey(text) == \E privateKey \in StoredPrivateKeys : Contains(text, privateKey)

\* C9: the signed transaction and the hash that TransactionService's signer
\* returns do not contain the private key, and no stored Transaction row
\* (RawTx, SignedTx, TxHash) contains it: it is kept in the keystore only.
C9_PrivateKeyOnlyInKeystore ==
    /\ (op.name = "TransactionService.SignTransaction" /\ out.st = "ok")
            => (~CarriesPrivateKey(out.signedTx) /\ ~CarriesPrivateKey(out.txHash))
    /\ \A t \in db.transactions :
            ~CarriesPrivateKey(t.rawTx) /\ ~CarriesPrivateKey(t.signedTx)
                /\ ~CarriesPrivateKey(t.txHash)

(* ---------------------------------------------------------------------- *)
(* Properties of the Ethereum signer and of TextBigInt (checked under      *)
(* EthSpec)                                                                *)
(* ---------------------------------------------------------------------- *)
\* the request carries a value for the member
Supplied(rawTx, f) == rawTx.members[f] \notin {Empty, JsonNull}

FeeMarketPair(rawTx) == Supplied(rawTx, "maxPriorityFeePerGas") /\ Supplied(rawTx, "maxFeePerGas")

\* C12: EthTransactionSigner.SignTransaction accepts a request only if it
\* supplies exactly one fee scheme, gasPrice or the pair maxPriorityFeePerGas
\* and maxFeePerGas; a request with neither scheme, with an incomplete pair
\* and no gasPrice, or with gasPrice together with the pair is rejected with
\* an error and empty outputs.
C12_ExactlyOneFeeScheme ==
    op.name = "EthTransactionSigner.SignTransaction" =>
        /\ out.st = "ok" =>
            /\ Supplied(op.rawTx, "gasPrice") \/ FeeMarketPair(op.rawTx)
            /\ ~(Supplied(op.rawTx, "gasPrice") /\ FeeMarketPair(op.rawTx))
        /\ (/\ op.rawTx.valid
            /\ \/ ~Supplied(op.rawTx, "gasPrice") /\ ~FeeMarketPair(op.rawTx)
               \/ Supplied(op.rawTx, "gasPrice") /\ FeeMarketPair(op.rawTx))
            => out = TxError

\* the bits of the number written with the hex digits h[1..i], lowest first
RECURSIVE HexDigitBits(_, _)
HexDigitBits(h, i) ==
    IF i = 0 THEN Empty
    ELSE <<FromHexChar(h[i]) % 2, (FromHexChar(h[i]) \div 2) % 2,
           (FromHexChar(h[i]) \div 4) % 2, FromHexChar(h[i]) \div 8>> \o HexDigitBits(h, i - 1)

RECURSIVE WithoutTopZeros(_)
WithoutTopZeros(b) ==
    IF b = Empty \/ b[Len(b)] = 1 THEN b ELSE WithoutTopZeros(SubSeq(b, 1, Len(b) - 1))

\* the non-negative integer n as a big integer
IntegerValue(n) == BigInt(FALSE, WithoutTopZeros(HexDigitBits(n.hex, Len(n.hex))))

\* C18: TextBigInt.UnmarshalJSON decodes a non-negative integer n to the
\* value n whether n is written as a decimal string, a 0x-prefixed hex
\* string, a JSON number or a {"_hex": "0x.."} object, and returns an error
\* for a non-integer JSON number and for a string that is neither decimal
\* nor 0x-hex.
C18_EveryFormDecodesToTheSameValue ==
    op.name = "TextBigInt.UnmarshalJSON" =>
        /\ \A n \in IntegerInputs :
            op.input \in IntegerForms(n) => out = BigResult("ok", IntegerValue(n))
        /\ op.input \in NonIntegerNumbers \cup NonNumericStrings => out = BigError

(* ---------------------------------------------------------------------- *)
(* Properties of the factories (checked under FactorySpec)                 *)
(* ---------------------------------------------------------------------- *)
\* the chains NewTransactionSigner is expected to know, with the signer type
ExpectedSigner ==
    [ethereum |-> "EthTransactionSigner", binance_smart_chain |-> "EthTransactionSigner",
     polygon |-> "EthTransactionSigner", avalanche |-> "EthTransactionSigner",
     bitcoin |-> "BtcTransactionSigner", solana |-> "SolanaTransactionSigner",
     tron |-> "TronTransactionSigner", sui |-> "SuiTransactionSigner",
     cardano |-> "AdaTransactionSigner", polkadot |-> "PolkadotTransactionSigner",
     kusama |-> "PolkadotTransactionSigner", ton |-> "TonTransactionSigner"]

\* the chains NewKeyGenerator has a case for
KeyGeneratorChains ==
    {"ethereum", "avalanche", "bitcoin", "solana", "tron", "sui", "cardano", "polkadot",
     "kusama", "ton"}

\* C13: NewKeyGenerator and NewTransactionSigner return a nil strategy with
\* an error for every chain identifier outside their supported set and a
\* strategy with a nil error for every identifier inside it; "polkadot"
\* gives a PolkadotTransactionSigner with IsKusama false, "kusama" one with
\* IsKusama true.
C13_FactoriesReturnStrategyOrError ==
    /\ op.name \in {"NewKeyGenerator", "NewTransactionSigner"} =>
            (out.err <=> out.strategy = "nil")
    /\ op.name = "NewTransactionSigner" =>
        /\ op.input \notin DOMAIN ExpectedSigner => out = FactoryError
        /\ op.input \in DOMAIN ExpectedSigner =>
                out = FactoryResult(ExpectedSigner[op.input], op.input = "kusama", FALSE)
    /\ op.name = "NewKeyGenerator" =>
        /\ op.input \notin KeyGeneratorChains => out = FactoryError
        /\ op.input \in KeyGeneratorChains => ~out.err /\ kp.gen = out.strategy

C13_Witness ==
    /\ op.name = "NewTransactionSigner"
    /\ op.input = "kusama"
    /\ out = FactoryResult("PolkadotTransactionSigner", TRUE, FALSE)
    /\ signed.signer = "PolkadotTransactionSigner"
    /\ kp.gen # "none"

\* C14: for every constant of the ChainType enumeration NewKeyGenerator
\* succeeds and NewTransactionSigner succeeds.
C14_EveryChainTypeHasBothStrategies ==
    (/\ op.name \in {"NewKeyGenerator", "NewTransactionSigner"}
     /\ \E c \in DOMAIN ChainTypeConstants : op.input = ChainTypeConstants[c])
        => ~out.err /\ out.strategy # "nil"

(* ---------------------------------------------------------------------- *)
(* Properties of the Bech32m functions (checked under Bech32Spec)          *)
(* ---------------------------------------------------------------------- *)
\* an HRP of 1 to 83 printable ASCII characters, 5-bit words, and a string
\* within the encoder's length limit
FitsEncoder(hrp, data) ==
    /\ Len(hrp) >= 1 /\ Len(hrp) <= 83
    /\ \A i \in 1..Len(hrp) : hrp[i] >= 33 /\ hrp[i] <= 126
    /\ \A i \in 1..Len(data) : data[i] >= 0 /\ data[i] < 32
    /\ Len(hrp) + 1 + Len(data) + 6 >= 8
    /\ Len(hrp) + 1 + Len(data) + 6 <= 150

\* C15: for every HRP of printable ASCII characters and every sequence of
\* 5-bit words whose encoding fits the encoder's length limit,
\* encodeBech32m(hrp, words) succeeds, decodeBech32mWithChecksum of the
\* result returns exactly (hrp, words), and validateBech32m accepts the
\* result.
C15_EncodeDecodeRoundTrip ==
    /\ (op.name = "encodeBech32m" /\ FitsEncoder(op.input, op.rawTx)) =>
            out = EncodeResult("ok", Bech32mString(op.input, op.rawTx))
    /\ op.name = "decodeBech32mWithChecksum" =>
            \A c \in Bech32Cases :
                (FitsEncoder(c.hrp, c.data) /\ op.input = c.s) =>
                    out = Bech32Result("ok", c.hrp, c.data)
    /\ op.name = "validateBech32m" =>
            \A c \in Bech32Cases :
                (FitsEncoder(c.hrp, c.data) /\ op.input = c.s) => out.st = "ok"

\* the index of the last "1" in s, counted from 0; -1 without one
SeparatorIndex(s) ==
    IF \E i \in 1..Len(s) : s[i] = 49
    THEN (CHOOSE i \in 1..Len(s) : s[i] = 49 /\ \A j \in (i + 1)..Len(s) : s[j] # 49) - 1
    ELSE -1

MixedCase(s) ==
    /\ \E i \in 1..Len(s) : s[i] >= 97 /\ s[i] <= 122
    /\ \E i \in 1..Len(s) : s[i] >= 65 /\ s[i] <= 90

\* the words of the characters after the separator
DataWords(s) == [i \in 1..(Len(s) - SeparatorIndex(s) - 1) |-> CharsetIndex(s[SeparatorIndex(s) + 1 + i])]

\* what the decoder must refuse
Malformed(s) ==
    \/ MixedCase(s)
    \/ SeparatorIndex(s) < 1
    \/ SeparatorIndex(s) > 83
    \/ \E i \in 1..Len(DataWords(s)) : DataWords(s)[i] = -1
    \/ Len(DataWords(s)) < 6
    \/ bech32Polymod(HrpExpand(Slice(s, 0, SeparatorIndex(s))) \o DataWords(s)) # bech32mConst

\* C16: Bech32m decoding returns an error for every string that is
\* mixed-case, has a data character outside the 32-character charset, has
\* its separator at a position outside [1, 83] from the start, or whose
\* 6-word checksum does not match.
C16_MalformedStringIsRejected ==
    (op.name \in {"decodeBech32mWithChecksum", "validateBech32m"} /\ Malformed(op.input))
        => out.st = "err"

(* ---------------------------------------------------------------------- *)
(* Properties of the Cardano addresses (checked under Spec)                *)
(* ---------------------------------------------------------------------- *)
\* the characters of a Bech32 address before its last "1"
AddressHrp(address) == Slice(address, 0, SeparatorIndex(address))

\* bit k (0-based) of the 5-bit words, most significant first
WordBitAt(words, k) == (words[(k \div 5) + 1] \div Pow2(4 - (k % 5))) % 2

\* the bytes that the words of a Bech32 address stand for, without the six
\* checksum words and without the padding bits
AddressPayload(address) ==
    LET words == Slice(DataWords(address), 0, Len(DataWords(address)) - 6)
    IN [j \in 1..((5 * Len(words)) \div 8) |->
            128 * WordBitAt(words, 8 * (j - 1)) + 64 * WordBitAt(words, 8 * (j - 1) + 1)
            + 32 * WordBitAt(words, 8 * (j - 1) + 2) + 16 * WordBitAt(words, 8 * (j - 1) + 3)
            + 8 * WordBitAt(words, 8 * (j - 1) + 4) + 4 * WordBitAt(words, 8 * (j - 1) + 5)
            + 2 * WordBitAt(words, 8 * (j - 1) + 6) + WordBitAt(words, 8 * (j - 1) + 7)]

\* the address type and the network of a call of a Cardano generator
AdaOptions ==
    IF op.name = "PublicKeyToAddressWithOptions" THEN op.rawTx ELSE <<"base", "mainnet">>

\* the identifiers each of the two generators gives to types and networks
AdaTypeID(g, addressType) ==
    IF addressType = "base" THEN 0 ELSE IF g = "Ada" THEN EnterpriseAddressType ELSE 6

AdaNetworkID(g, networkType) ==
    IF g = "Ada" THEN (IF networkType = "mainnet" THEN MainnetNetworkID ELSE TestnetNetworkID)
    ELSE IF networkType = "mainnet" THEN 1 ELSE 0

\* C17: the payload of a Cardano address is header || Blake2b-224(pub) for
\* an enterprise address and header || Blake2b-224(pub) || Blake2b-224(pub)
\* for a base address (29 and 57 bytes), with header =
\* (address_type << 4) | network_id, and the HRP is "addr" for mainnet and
\* "addr_test" for testnet.
C17_CardanoPayloadIsHeaderAndHashes ==
    (/\ op.name \in {"PublicKeyToAddress", "PublicKeyToAddressWithOptions"}
     /\ op.target \in {"Ada", "Ed25519Ada"}
     /\ out.st = "ok")
        => /\ AddressHrp(out.address) =
                (IF AdaOptions[2] = "mainnet" THEN <<97, 100, 100, 114>>
                 ELSE <<97, 100, 100, 114, 95, 116, 101, 115, 116>>)
           /\ AddressPayload(out.address) =
                <<16 * AdaTypeID(op.target, AdaOptions[1]) + AdaNetworkID(op.target, AdaOptions[2])>>
                    \o Blake2b(28, HexDecode(op.input))
                    \o (IF AdaOptions[1] = "base" THEN Blake2b(28, HexDecode(op.input)) ELSE Empty)

(* ---------------------------------------------------------------------- *)
(* Properties of every operation                                           *)
(* ---------------------------------------------------------------------- *)
\* C19: no generator, signer, number-parsing or keystore operation panics:
\* for every input (empty, too short, non-hex or malformed JSON included)
\* the operation ends by returning a result or an error value (checked
\* under EthSpec).
C19_NoOperationPanics == op.name # "none" => out.st \in {"ok", "err"}

\* the private key of a SignTransaction call is no hex string or has not
\* the length of a key of the signer's curve
WrongPrivateKey ==
    \/ ~HexValid(op.input)
    \/ /\ op.target \in {"Btc", "Tron", "Eth"}
       /\ Len(HexDecode(op.input)) # 32
    \/ /\ op.target \notin {"Btc", "Tron", "Eth"}
       /\ Len(HexDecode(op.input)) \notin {32, 64}

\* the transaction of a SignTransaction call is no JSON of the signer's
\* request type, or lacks a member the signer requires
WrongTransaction ==
    IF op.target = "Btc" THEN ~op.rawTx.json
    ELSE IF op.target = "Eth"
    THEN \/ ~op.rawTx.valid
         \/ \E f \in {"nonce", "gas", "chainId"} : ~Supplied(op.rawTx, f)
    ELSE ~JsonUnmarshalOk(op.rawTx)

\* C20: every signer's SignTransaction returns an error with empty
\* signed_tx and tx_hash when raw_tx is not valid JSON for the chain's
\* request type, when a required field is missing (EVM: nonce, gas,
\* chainId), or when the private key is not valid hex or has the wrong byte
\* length for the chain's curve (checked under SignerSpec).
C20_SignRejectsMalformedArguments ==
    (/\ op.name \in {"SignTransaction", "TronTransactionSigner.SignTransaction",
                     "EthTransactionSigner.SignTransaction"}
     /\ WrongPrivateKey \/ WrongTransaction)
        => out = TxError

(* ---------------------------------------------------------------------- *)
(* Properties of repeated SignTransaction calls (checked under SignerSpec) *)
(* ---------------------------------------------------------------------- *)
\* a call of a signer's SignTransaction
IsSignCall(o) == o.name \in {"SignTransaction", "TronTransactionSigner.SignTransaction"}

\* C21: SignTransaction is deterministic for every signer and every
\* accepted private-key form: two calls with identical (raw_tx,
\* private_key) return identical (signed_tx, tx_hash), whatever was called
\* before and whatever the random source gives (checked under SignerSpec).
C21_SignTransactionIsDeterministic ==
    [][(/\ IsSignCall(op) /\ IsSignCall(op')
        /\ op'.target = op.target
        /\ op'.rawTx = op.rawTx
        /\ op'.input = op.input)
           => out' = out]_vars

(* ---------------------------------------------------------------------- *)
(* The signers that hash the key and the transaction in place of a         *)
(* signature (ton_signer.go and its like for Solana, SUI, TRON, Bitcoin    *)
(* and Polkadot/Kusama)                                                    *)
(* ---------------------------------------------------------------------- *)
\* the text before "_signed_" and before "_", by signer
HashSignerPrefix(signer) ==
    IF signer = "Solana" THEN <<115, 111, 108>>                 \* "sol"
    ELSE IF signer = "Sui" THEN <<115, 117, 105>>               \* "sui"
    ELSE IF signer = "Ton" THEN <<116, 111, 110>>               \* "ton"
    ELSE IF signer = "Tron" THEN <<116, 114, 111, 110>>         \* "tron"
    ELSE IF signer = "Btc" THEN <<98, 116, 99>>                 \* "btc"
    ELSE IF signer = "Kusama" THEN <<107, 115, 109>>            \* "ksm"
    ELSE <<100, 111, 116>>                                      \* "dot"

\* Sprintf("<prefix>_signed_%s", hex(Keccak256(append(privateKeyBytes, rawTx...))))
HashSignedTx(prefix, rawTx, privateKeyBytes) ==
    prefix \o SignedInfix \o HexEncode(Keccak256(privateKeyBytes \o rawTx))

\* the body that the signers of Solana, SUI, TON and TRON share
HashSignTransaction(prefix, rawTx, privateKeyHex) ==
    IF ~HexValid(privateKeyHex) THEN TxError
    ELSE IF ~JsonUnmarshalOk(rawTx) THEN TxError
    ELSE LET signedTx == HashSignedTx(prefix, rawTx, HexDecode(privateKeyHex))
         IN TxResult("ok", signedTx, prefix \o <<95>> \o HexEncode(Keccak256(signedTx)))

Hash_SolanaTransactionSigner_SignTransaction(rawTx, privateKeyHex) ==
    HashSignTransaction(HashSignerPrefix("Solana"), rawTx, privateKeyHex)

Hash_SuiTransactionSigner_SignTransaction(rawTx, privateKeyHex) ==
    HashSignTransaction(HashSignerPrefix("Sui"), rawTx, privateKeyHex)

Hash_TonTransactionSigner_SignTransaction(rawTx, privateKeyHex) ==
    HashSignTransaction(HashSignerPrefix("Ton"), rawTx, privateKeyHex)

Hash_TronTransactionSigner_SignTransaction(rawTx, privateKeyHex) ==
    HashSignTransaction(HashSignerPrefix("Tron"), rawTx, privateKeyHex)

\* the transaction hash is chainhash.DoubleHashB of the text, in hex
Hash_BtcTransactionSigner_SignTransaction(rawTx, privateKeyHex) ==
    IF ~HexValid(privateKeyHex) THEN TxError
    ELSE IF ~JsonUnmarshalOk(rawTx) THEN TxError
    ELSE LET signedTx == HashSignedTx(HashSignerPrefix("Btc"), rawTx, HexDecode(privateKeyHex))
         IN TxResult("ok", signedTx, HexEncode(DoubleSha256(signedTx)))

PolkadotTransactionSigner_SignTransaction(isKusama, rawTx, privateKeyHex) ==
    HashSignTransaction(HashSignerPrefix(IF isKusama THEN "Kusama" ELSE "Polkadot"), rawTx, privateKeyHex)

HashSigners == {"Solana", "Sui", "Ton", "Tron", "Btc", "Polkadot", "Kusama"}

Hash_SignTransaction(signer, rawTx, privateKeyHex) ==
    IF signer = "Solana" THEN Hash_SolanaTransactionSigner_SignTransaction(rawTx, privateKeyHex)
    ELSE IF signer = "Sui" THEN Hash_SuiTransactionSigner_SignTransaction(rawTx, privateKeyHex)
    ELSE IF signer = "Ton" THEN Hash_TonTransactionSigner_SignTransaction(rawTx, privateKeyHex)
    ELSE IF signer = "Tron" THEN Hash_TronTransactionSigner_SignTransaction(rawTx, privateKeyHex)
    ELSE IF signer = "Btc" THEN Hash_BtcTransactionSigner_SignTransaction(rawTx, privateKeyHex)
    ELSE PolkadotTransactionSigner_SignTransaction(signer = "Kusama", rawTx, privateKeyHex)

(* ---------------------------------------------------------------------- *)
(* A caller of one of those signers                                        *)
(* ---------------------------------------------------------------------- *)
\* {"seqno":1}, {"seqno":2}, {}, "not json", nothing
HashRawTxInputs == {SeqnoTx(1), SeqnoTx(2), <<123, 125>>, NotJsonTx, Empty}

\* seeds, 64-byte keys, a 31-byte key, no key, text that is no hex
HashKeyInputs ==
    {SeedHex(k) : k \in KeyIds} \cup {ExpandedKeyHex(k) : k \in KeyIds}
        \cup {SmallKeyHex(31), Empty, NotHexString, OddHexString}

\* a signer was constructed; nothing was signed
HashSignerInit ==
    /\ kp = NoKeyPair
    /\ signed \in {[NoSigned EXCEPT !.signer = s] : s \in HashSigners}
    /\ op = NoCall
    /\ out = TxResult("none", Empty, Empty)
    /\ build = "none"
    /\ db = EmptyDb
    /\ keystore = EmptyKeystore
    /\ calls = NoCalls

CallHashSignTransaction ==
    \E rawTx \in HashRawTxInputs, privateKey \in HashKeyInputs :
        LET res == Hash_SignTransaction(signed.signer, rawTx, privateKey)
        IN /\ op' = Call("Hash.SignTransaction", signed.signer, privateKey, rawTx, Empty, 0)
           /\ out' = res
           /\ signed' = IF res.st = "ok"
                        THEN [signer |-> signed.signer, st |-> "ok", rawTx |-> rawTx,
                              privateKey |-> privateKey, signature |-> res.signedTx,
                              msgTx |-> Empty]
                        ELSE [NoSigned EXCEPT !.signer = signed.signer]
           /\ UNCHANGED <<kp, serviceVars, calls>>

HashSignerNext == CallHashSignTransaction

HashSignerSpec == HashSignerInit /\ [][HashSignerNext]_vars

(* ---------------------------------------------------------------------- *)
(* Properties of the hash-in-place-of-signature signers (checked under     *)
(* HashSignerSpec)                                                         *)
(* ---------------------------------------------------------------------- *)
\* the hash functions of the libraries the signers use
HashBy(h, s) ==
    IF h = "keccak256" THEN Keccak256(s)
    ELSE IF h = "sha256" THEN Sha256(s)
    ELSE DoubleSha256(s)

\* C22: every signer running in placeholder mode returns signed_tx =
\* prefix + "_signed_" + hex(hash(private_key_bytes || raw_tx_bytes)) and
\* tx_hash = prefix + "_" + hex(hash(signed_tx)), with the prefix fixed per
\* chain (sol, sui, ton, tron, btc, dot for Polkadot and ksm for Kusama);
\* hash is one of the libraries' hash functions (checked under
\* HashSignerSpec).
C22_PlaceholderOutputsAreTaggedHashes ==
    (op.name = "Hash.SignTransaction" /\ out.st = "ok")
        => \E h1, h2 \in {"keccak256", "sha256", "double-sha256"} :
              /\ out.signedTx = HashSignerPrefix(op.target) \o SignedInfix
                                    \o HexEncode(HashBy(h1, HexDecode(op.input) \o op.rawTx))
              /\ out.txHash = HashSignerPrefix(op.target) \o <<95>>
                                    \o HexEncode(HashBy(h2, out.signedTx))

(* ---------------------------------------------------------------------- *)
(* Properties of KeyService (checked under ServiceSpec)                    *)
(* ---------------------------------------------------------------------- *)
\* the Address rows of a user for a chain
AddressesOf(d, userID, chainType) ==
    {a \in d.addresses : a.userID = userID /\ a.chainType = chainType}

\* C23: KeyService.GenerateKeyPair(user, chain) called when the user
\* already has an address for that chain returns that existing key pair and
\* changes nothing: no PublicKey or Address record is added and no keystore
\* entry is written, so that exactly one Address record exists for the
\* (user, chain) after the call.
C23_ExistingKeyPairIsReturnedUnchanged ==
    [][(/\ op'.name = "KeyService.GenerateKeyPair"
        /\ AddressesOf(db, op'.input, op'.target) # {})
           => /\ out'.st = "ok"
              /\ out'.address \in AddressesOf(db, op'.input, op'.target)
              /\ out'.publicKey \in db.publicKeys
              /\ out'.publicKey.publicKey = out'.address.publicKey
              /\ db' = db
              /\ keystore' = keystore
              /\ Cardinality(AddressesOf(db', op'.input, op'.target)) = 1]_vars

\* a call for a (user, chain) that has its address has returned, with a
\* random outcome other than the one that made the stored key
C23_Witness ==
    /\ op.name = "KeyService.GenerateKeyPair"
    /\ out.st = "ok"
    /\ db.addressID = 1
    /\ db.publicKeyID = 1
    /\ Cardinality(AddressesOf(db, op.input, op.target)) = 1
    /\ op.r = 2
    /\ Keystore_GetUserPrivateKey(keystore, op.input, op.target).privateKey
           # generatedKeyPair(NewKeyGenerator(build, op.target), 2).privateKey

\* the PublicKey rows of a user on the curve of a chain
PublicKeysOnCurveOf(d, userID, chainType) ==
    {p \in d.publicKeys : p.userID = userID /\ p.curve = GetCurveAndEncoding(chainType).curve}

\* C24: when a user has no address for the requested chain but already
\* holds a key pair on the same curve for another chain,
\* KeyService.GenerateKeyPair derives the new chain's public key and
\* address from that existing private key: the private key stored for
\* (user, new chain) equals the one stored for the existing chain and no
\* fresh key is generated.
C24_SameCurveKeyIsReused ==
    [][(/\ op'.name = "KeyService.GenerateKeyPair"
        /\ AddressesOf(db, op'.input, op'.target) = {}
        /\ PublicKeysOnCurveOf(db, op'.input, op'.target) # {}
        /\ out'.st = "ok")
           => \E a \in db.addresses :
                 /\ a.userID = op'.input
                 /\ a.publicKey = FirstRow(PublicKeysOnCurveOf(db, op'.input, op'.target)).publicKey
                 /\ Keystore_GetUserPrivateKey(keystore', op'.input, op'.target)
                        = Keystore_GetUserPrivateKey(keystore, op'.input, a.chainType)]_vars

NoOrphans(d, ks) ==
    /\ \A f \in ks.keys : \E a \in d.addresses : a.address = f.address
    /\ \A f \in ks.userKeys : AddressesOf(d, f.userID, f.chainType) # {}
    /\ \A p \in d.publicKeys : \E a \in d.addresses : a.publicKey = p.publicKey

\* the random source gives the call a key that the keystore does not hold
FreshRandomOutcome(ks, b, chainType, k) ==
    \A f \in ks.keys \cup ks.userKeys :
        f.privateKey # generatedKeyPair(NewKeyGenerator(b, chainType), k).privateKey

\* C26: when KeyService.GenerateKeyPair returns an error, the keystore and
\* the database are as they were before the call: no private-key entry (by
\* address or by user and chain) exists without a matching Address record,
\* and no PublicKey record exists without an Address record.  Calls whose
\* random outcome repeats an earlier one are left out.
C26_FailedGenerateLeavesNoTrace ==
    [][(/\ op'.name = "KeyService.GenerateKeyPair" /\ out'.st = "err"
        /\ FreshRandomOutcome(keystore, build, op'.target, op'.r))
           => /\ keystore' = keystore
              /\ db'.publicKeys = db.publicKeys
              /\ db'.addresses = db.addresses
              /\ (NoOrphans(db, keystore) => NoOrphans(db', keystore'))]_vars

\* C29: after KeyService.DeleteKeyPair(id) returns nil for an existing key
\* pair, its Address and PublicKey records no longer exist and its private
\* key is no longer retrievable from the keystore, neither by address nor
\* by (user, chain).
C29_DeletedKeyPairLeavesNoKey ==
    [][(/\ op'.name = "KeyService.DeleteKeyPair"
        /\ out'.st = "ok"
        /\ GetKeyPairByID(db, op'.input).st = "ok")
           => LET keyPair == GetKeyPairByID(db, op'.input)
              IN /\ keyPair.address \notin db'.addresses
                 /\ keyPair.publicKey \notin db'.publicKeys
                 /\ Keystore_GetPrivateKey(keystore', keyPair.address.address).st = "err"
                 /\ Keystore_GetUserPrivateKey(keystore', keyPair.address.userID,
                                               keyPair.address.chainType).st = "err"]_vars

(* ---------------------------------------------------------------------- *)
(* Properties of the integers of a signed Ethereum transaction (checked    *)
(* under EthSpec)                                                          *)
(* ---------------------------------------------------------------------- *)
\* the integer that the text of a member writes: a JSON number is read
\* digit by digit, the other forms as UnmarshalJSON reads them
ExactMember(text) ==
    IF text = Empty \/ text = JsonNull THEN BigResult("nil", BigInt(FALSE, Empty))
    ELSE IF JsonNumber(text).ok /\ JsonNumber(text).whole
    THEN BigResult("ok", BigInt(JsonNumber(text).neg,
                                ParseDigits(JsonNumber(text).int, 1, 10, Empty)))
    ELSE TextBigInt_UnmarshalJSON(text)

\* the transaction object with every integer as the request writes it
ExactTxPayload(rawTx) ==
    LET m(f) == ExactMember(rawTx.members[f]).val.mag
    IN <<(IF FeeMarketPair(rawTx) THEN 2 ELSE 0)>> \o m("chainId") \o <<2>> \o m("nonce") \o <<2>>
           \o (IF FeeMarketPair(rawTx)
               THEN m("maxPriorityFeePerGas") \o <<2>> \o m("maxFeePerGas")
               ELSE m("gasPrice"))
           \o <<2>> \o m("gas") \o <<2>> \o rawTx.to \o <<2>> \o m("value") \o <<2>> \o rawTx.data

\* C30: for every request that EthTransactionSigner.SignTransaction accepts,
\* the nonce, gas, value and fee fields encoded in the signed transaction
\* are equal, as integers, to the values supplied in the request: no
\* accepted value is truncated, wrapped to 64 bits or rounded (checked under
\* EthSpec).
C30_SignedIntegersAreTheSupplied ==
    (op.name = "EthTransactionSigner.SignTransaction" /\ out.st = "ok")
        => out = EthSignedResult(EthSignedTxBytes(ExactTxPayload(op.rawTx), HexDecode(op.input)))


(* ---------------------------------------------------------------------- *)
(* Requests served at the same time. KeyService and Keystore hold no lock  *)
(* and GenerateKeyPair opens no database transaction: every database       *)
(* statement and every read or write of a keystore file is a step of the   *)
(* goroutine that runs it, and the steps of two goroutines interleave      *)
(* ---------------------------------------------------------------------- *)
\* the requests of the goroutines: two chains of one curve, the chain whose
\* generator gives every key the same address, a chain that no factory
\* knows, and a request that names no user
ConcurrentRequests ==
    {<<"u1", "ethereum">>, <<"u1", "bitcoin">>, <<"u1", "tron">>, <<"u1", "dogecoin">>,
     <<"", "ethereum">>}

\* the arguments of a direct Keystore.SaveUserPrivateKey call
ConcurrentSaves == {"u1"} \X {"ethereum", "bitcoin"} \X {SeedHex(k) : k \in KeyIds}

\* the method returns res
Return(c, res) == [c EXCEPT !.pc = "done", !.res = res]

ConcurrentInit ==
    /\ kp = NoKeyPair
    /\ signed = NoSigned
    /\ op = NoCall
    /\ out = KeyPairResult("none", NoRow, NoRow)
    /\ build \in Builds
    /\ db = EmptyDb
    /\ keystore = EmptyKeystore
    /\ calls = NoCalls

\* GenerateKeyPair is called: the test of the arguments
BeginGenerateKeyPair ==
    \E g \in Goroutines, request \in ConcurrentRequests :
        LET c == [IdleCall EXCEPT !.name = "KeyService.GenerateKeyPair",
                                  !.userID = request[1], !.chainType = request[2]]
        IN /\ calls[g].pc = "idle"
           /\ calls' = [calls EXCEPT ![g] =
                  IF request[1] = "" \/ request[2] = "" THEN Return(c, KeyPairError)
                  ELSE [c EXCEPT !.pc = "checkExistingAddress"]]
           /\ UNCHANGED <<kp, signed, op, out, build, db, keystore>>

\* step 1: the Address row of (user, chain) and its PublicKey row
StepCheckExistingAddress ==
    \E g \in Goroutines :
        LET c == calls[g]
            existingKeyPair == checkExistingAddress(db, c.userID, c.chainType)
        IN /\ c.pc = "checkExistingAddress"
           /\ calls' = [calls EXCEPT ![g] =
                  IF existingKeyPair.st = "ok" THEN Return(c, existingKeyPair)
                  ELSE [c EXCEPT !.pc = "findPublicKeys"]]
           /\ UNCHANGED <<kp, signed, op, out, build, db, keystore>>

\* step 2: the PublicKey rows of the user on the chain's curve; with one,
\* deriveKeyPairFromExisting takes the first, otherwise generateNewKeyPair
StepFindPublicKeys ==
    \E g \in Goroutines :
        LET c == calls[g]
            ce == GetCurveAndEncoding(c.chainType)
            existingPublicKeys ==
                {p \in db.publicKeys : p.userID = c.userID /\ p.curve = ce.curve}
            d == [c EXCEPT !.curve = ce.curve, !.encoding = ce.encoding]
        IN /\ c.pc = "findPublicKeys"
           /\ calls' = [calls EXCEPT ![g] =
                  IF existingPublicKeys = {} THEN [d EXCEPT !.pc = "generate"]
                  ELSE IF NewKeyGenerator(build, c.chainType) = "unsupported"
                  THEN Return(d, KeyPairError)
                  ELSE [d EXCEPT !.pc = "getUserPrivateKey",
                                 !.publicKey = FirstRow(existingPublicKeys)]]
           /\ UNCHANGED <<kp, signed, op, out, build, db, keystore>>

\* deriveKeyPairFromExisting: PublicKeyToAddress of the row's key, the
\* keystore's key of the row's chain type, DeriveKeyPairFromPrivateKey;
\* generateNewKeyPair when the key is not found or cannot be derived from
StepGetUserPrivateKey ==
    \E g \in Goroutines, k \in KeyIds :
        LET c == calls[g]
            generator == NewKeyGenerator(build, c.chainType)
            toAddress == PublicKeyToAddress(generator, c.publicKey.publicKey)
            privateKey == Keystore_GetUserPrivateKey(keystore, c.userID, c.publicKey.chainType)
            derived == DeriveKeyPairFromPrivateKey(generator, privateKey.privateKey, k)
        IN /\ c.pc = "getUserPrivateKey"
           /\ calls' = [calls EXCEPT ![g] =
                  IF toAddress.st = "panic" THEN Return(c, KeyPairResult("panic", NoRow, NoRow))
                  ELSE IF privateKey.st = "err" THEN [c EXCEPT !.pc = "generate"]
                  ELSE IF toAddress.st = "ok"
                  THEN [c EXCEPT !.pc = "readUserKeys",
                                 !.gen = KeyResult("ok", toAddress.address, c.publicKey.publicKey,
                                                   privateKey.privateKey)]
                  ELSE IF derived.st = "panic"
                  THEN Return(c, KeyPairResult("panic", NoRow, NoRow))
                  ELSE IF derived.st = "err" THEN [c EXCEPT !.pc = "generate"]
                  ELSE [c EXCEPT !.pc = "readUserKeys",
                                 !.gen = KeyResult("ok", derived.address, derived.publicKey,
                                                   privateKey.privateKey)]]
           /\ UNCHANGED <<kp, signed, op, out, build, db, keystore>>

\* generateNewKeyPair: the factory and the generator's GenerateKeyPair
StepGenerate ==
    \E g \in Goroutines, k \in KeyIds :
        LET c == calls[g]
            gen == generatedKeyPair(NewKeyGenerator(build, c.chainType), k)
        IN /\ c.pc = "generate"
           /\ calls' = [calls EXCEPT ![g] =
                  IF gen.st # "ok" THEN Return(c, KeyPairResult(gen.st, NoRow, NoRow))
                  ELSE [c EXCEPT !.pc = "savePrivateKey", !.gen = gen, !.byAddress = TRUE]]
           /\ UNCHANGED <<kp, signed, op, out, build, db, keystore>>

\* generateNewKeyPair: the key_<address>.txt file is written
StepSavePrivateKey ==
    \E g \in Goroutines :
        LET c == calls[g]
        IN /\ c.pc = "savePrivateKey"
           /\ keystore' = SavePrivateKey(keystore, c.gen.address, c.gen.privateKey)
           /\ calls' = [calls EXCEPT ![g] = [c EXCEPT !.pc = "readUserKeys"]]
           /\ UNCHANGED <<kp, signed, op, out, build, db>>

\* Keystore.SaveUserPrivateKey is called by itself
BeginSaveUserPrivateKey ==
    \E g \in Goroutines, save \in ConcurrentSaves :
        /\ calls[g].pc = "idle"
        /\ calls' = [calls EXCEPT ![g] =
               [IdleCall EXCEPT !.name = "Keystore.SaveUserPrivateKey", !.pc = "readUserKeys",
                                !.userID = save[1], !.chainType = save[2],
                                !.gen = KeyResult("ok", Empty, Empty, save[3])]]
        /\ UNCHANGED <<kp, signed, op, out, build, db, keystore>>

\* SaveUserPrivateKey: the user's file is read into userKeys
StepReadUserKeys ==
    \E g \in Goroutines :
        LET c == calls[g]
        IN /\ c.pc = "readUserKeys"
           /\ calls' = [calls EXCEPT ![g] =
                  [c EXCEPT !.pc = "writeUserKeys",
                            !.userKeys = {f \in keystore.userKeys : f.userID = c.userID}]]
           /\ UNCHANGED <<kp, signed, op, out, build, db, keystore>>

\* SaveUserPrivateKey: the chain's entry is set in userKeys and the file is
\* written from it
StepWriteUserKeys ==
    \E g \in Goroutines :
        LET c == calls[g]
            entry == [userID |-> c.userID, chainType |-> c.chainType,
                      privateKey |-> c.gen.privateKey]
        IN /\ c.pc = "writeUserKeys"
           /\ keystore' = [keystore EXCEPT !.userKeys =
                  {f \in @ : f.userID # c.userID}
                      \cup {f \in c.userKeys : f.chainType # c.chainType} \cup {entry}]
           /\ calls' = [calls EXCEPT ![g] =
                  IF c.name = "Keystore.SaveUserPrivateKey"
                  THEN [c EXCEPT !.pc = "done", !.saved = TRUE]
                  ELSE [c EXCEPT !.pc = "insertPublicKey", !.saved = TRUE]]
           /\ UNCHANGED <<kp, signed, op, out, build, db>>

\* saveKeyPairToDatabase: Insert(publicKey); public_key is a unique column
StepInsertPublicKey ==
    \E g \in Goroutines :
        LET c == calls[g]
            publicKey == [id |-> db.publicKeyID + 1, userID |-> c.userID, chainType |-> "",
                          publicKey |-> c.gen.publicKey, curve |-> c.curve]
        IN /\ c.pc = "insertPublicKey"
           /\ IF \E p \in db.publicKeys : p.publicKey = c.gen.publicKey
              THEN /\ db' = db
                   /\ calls' = [calls EXCEPT ![g] = Return(c, KeyPairError)]
              ELSE /\ db' = [db EXCEPT !.publicKeys = @ \cup {publicKey}, !.publicKeyID = @ + 1]
                   /\ calls' = [calls EXCEPT ![g] =
                          [c EXCEPT !.pc = "insertAddress", !.publicKey = publicKey]]
           /\ UNCHANGED <<kp, signed, op, out, build, keystore>>

\* saveKeyPairToDatabase: Insert(address); address is a unique column,
\* (user_id, chain_type) is not
StepInsertAddress ==
    \E g \in Goroutines :
        LET c == calls[g]
            address == [id |-> db.addressID + 1, publicKey |-> c.gen.publicKey,
                        userID |-> c.userID, chainType |-> c.chainType,
                        address |-> c.gen.address, encoding |-> c.encoding]
        IN /\ c.pc = "insertAddress"
           /\ IF \E a \in db.addresses : a.address = c.gen.address
              THEN /\ db' = db
                   /\ calls' = [calls EXCEPT ![g] = [c EXCEPT !.pc = "deletePublicKey"]]
              ELSE /\ db' = [db EXCEPT !.addresses = @ \cup {address}, !.addressID = @ + 1]
                   /\ calls' = [calls EXCEPT ![g] =
                          Return(c, KeyPairResult("ok", c.publicKey, address))]
           /\ UNCHANGED <<kp, signed, op, out, build, keystore>>

\* saveKeyPairToDatabase: Delete(publicKey) after the failed Insert(address)
StepDeletePublicKey ==
    \E g \in Goroutines :
        LET c == calls[g]
        IN /\ c.pc = "deletePublicKey"
           /\ db' = [db EXCEPT !.publicKeys = @ \ {c.publicKey}]
           /\ calls' = [calls EXCEPT ![g] = Return(c, KeyPairError)]
           /\ UNCHANGED <<kp, signed, op, out, build, keystore>>

ConcurrentNext ==
    \/ BeginGenerateKeyPair
    \/ StepCheckExistingAddress
    \/ StepFindPublicKeys
    \/ StepGetUserPrivateKey
    \/ StepGenerate
    \/ StepSavePrivateKey
    \/ BeginSaveUserPrivateKey
    \/ StepReadUserKeys
    \/ StepWriteUserKeys
    \/ StepInsertPublicKey
    \/ StepInsertAddress
    \/ StepDeletePublicKey

ConcurrentSpec == ConcurrentInit /\ [][ConcurrentNext]_vars

(* ---------------------------------------------------------------------- *)
(* Properties of requests served at the same time (checked under           *)
(* ConcurrentSpec)                                                         *)
(* ---------------------------------------------------------------------- *)
\* the GenerateKeyPair calls that have returned a key pair
Succeeded == {g \in Goroutines : calls[g].name = "KeyService.GenerateKeyPair"
                                  /\ calls[g].pc = "done" /\ calls[g].res.st = "ok"}

\* C27: under any interleaving of concurrent KeyService.GenerateKeyPair
\* calls for the same (user, chain), at most one Address row exists for
\* that (user, chain) and every caller that succeeds receives the same key
\* pair.
C27_ConcurrentGenerateKeepsOneKeyPair ==
    /\ \A g \in Goroutines :
           Cardinality(AddressesOf(db, calls[g].userID, calls[g].chainType)) <= 1
    /\ \A g \in Succeeded, h \in Succeeded :
           (calls[g].userID = calls[h].userID /\ calls[g].chainType = calls[h].chainType)
               => calls[g].res = calls[h].res


\* goroutine g's SaveUserPrivateKey writes the file in this step
WritesUserKeys(g) == calls[g].pc = "writeUserKeys" /\ calls'[g].pc # "writeUserKeys"

\* the entries of other chains and users are in the file after the step
OtherEntriesKept(g) ==
    \A f \in keystore.userKeys :
        (f.userID # calls[g].userID \/ f.chainType # calls[g].chainType)
            => f \in keystore'.userKeys

\* the key that g's SaveUserPrivateKey saved is the one GetUserPrivateKey returns
SavedKeyRetrievable(g) ==
    Keystore_GetUserPrivateKey(keystore, calls[g].userID, calls[g].chainType)
        = [st |-> "ok", privateKey |-> calls[g].gen.privateKey]

\* C28: Keystore.SaveUserPrivateKey(user, chain, key) changes only the
\* entry for that chain, every other chain's key of the same user is
\* unchanged, and when two calls for the same user and different chains
\* run concurrently, both keys are retrievable with GetUserPrivateKey
\* afterwards.
C28_SaveUserPrivateKeyKeepsOtherChains ==
    /\ [][\A g \in Goroutines : WritesUserKeys(g) => OtherEntriesKept(g)]_vars
    /\ [](\A g \in Goroutines, h \in Goroutines :
              (/\ calls[g].saved /\ calls[h].saved
               /\ calls[g].userID = calls[h].userID
               /\ calls[g].chainType # calls[h].chainType)
                  => SavedKeyRetrievable(g) /\ SavedKeyRetrievable(h))

====
